---------------------------- MODULE Spec2Model ----------------------------
(***************************************************************************)
(* A model of the Cosmos plugin of vitwit/eliza: the wallet provider       *)
(* (buildChainInfo, connectWallet, estimateGas, WalletProvider and its     *)
(* portfolio cache, walletProvider.get), the two transfer actions          *)
(* (COSMOS_SEND_TOKEN and the older SEND_COSMOS), getCosmosWalletKey and   *)
(* the TEE plugin's DeriveKeyProvider and WalletProvider.                  *)
(*                                                                         *)
(* JavaScript values: a string is a TLA+ string and `undefined` (or null)  *)
(* in a string position is the value Undefined; a number is the record     *)
(* Num(n), NaN and an absent number are JsNaN and JsUndef.                 *)
(*                                                                         *)
(* The libraries the plugin wraps (cosmjs, chain-registry, node-cache,     *)
(* fetch, the TEE client, the agent runtime) are the environment.  An      *)
(* async function runs until it awaits a request to the environment; it    *)
(* is then a frame of `pending`, and other calls run until the request is  *)
(* answered.  An operation is therefore two actions: the call, which runs  *)
(* the function to its first await (or to its end when it awaits          *)
(* nothing), and the resumption, which takes a frame and an answer and     *)
(* runs the function to its next await or to its end.  Each step reads     *)
(* the registry, the provider instance and the clock as they are at that   *)
(* step.                                                                   *)
(***************************************************************************)
EXTENDS Integers, Sequences, FiniteSets, Bags, TLC

VARIABLES
    chains,   \* the chain-registry array `chains`, by chain_name (buildChainInfo writes to it)
    wp,       \* a WalletProvider instance of plugin-cosmos that a caller keeps
    teeWp,    \* a WalletProvider instance of plugin-cosmos-tee that a caller keeps
    now,      \* the clock (Date.now()), in seconds
    req,      \* the request at hand: runtime settings, extracted content, answers given so far
    out,      \* what each transfer handler did with req
    last,     \* the call that returned in the last step: its inputs, its result, the calls it made
    pending   \* the calls in flight: one frame for each call that awaits an answer

vars == <<chains, wp, teeWp, now, req, out, last, pending>>

---------------------------------------------------------------------------
(* Bounds of the model *)

\* the clock stops after MaxTime ticks of TickSeconds
MaxTime == 2

\* the most calls in flight at a time
MaxInFlight == 2

---------------------------------------------------------------------------
(* JavaScript values *)

Undefined == "<undefined>"

JsUndef == [t |-> "undefined"]

JsNaN == [t |-> "NaN"]

Num(n) == [t |-> "number", v |-> n]

Str(s) == [t |-> "string", v |-> s]

JsNull == [t |-> "null"]

\* !!s for s a string or undefined
Truthy(s) == s # Undefined /\ s # ""

\* `${s}` and "" + s for s a string or undefined
Template(s) == IF s = Undefined THEN "undefined" ELSE s

Digits == "0123456789"

IsDigit(c) == \E i \in 1..10 : SubSeq(Digits, i, i) = c

DigitValue(c) == (CHOOSE i \in 1..10 : SubSeq(Digits, i, i) = c) - 1

RECURSIVE AllDigits(_)
AllDigits(s) ==
    IF s = "" THEN TRUE
    ELSE IsDigit(SubSeq(s, 1, 1)) /\ AllDigits(SubSeq(s, 2, Len(s)))

RECURSIVE DigitsValue(_)
DigitsValue(s) ==
    IF s = "" THEN 0
    ELSE 10 * DigitsValue(SubSeq(s, 1, Len(s) - 1)) + DigitValue(SubSeq(s, Len(s), Len(s)))

\* Number(s) for s a string: "" is 0, a run of decimal digits is its value, and
\* any other text the model draws (letters) is NaN
NumberOf(s) ==
    IF AllDigits(s) THEN Num(DigitsValue(s)) ELSE JsNaN

RECURSIVE NatToString(_)
NatToString(n) ==
    IF n < 10 THEN SubSeq(Digits, n + 1, n + 1)
    ELSE NatToString(n \div 10) \o SubSeq(Digits, (n % 10) + 1, (n % 10) + 1)

\* String(v) for v a string or a number
StringOf(v) ==
    CASE v.t = "string" -> v.v
      [] v.t = "number" -> NatToString(v.v)
      [] v.t = "NaN" -> "NaN"
      [] v.t = "null" -> "null"
      [] OTHER -> "undefined"

LowerChars == "abcdefghijklmnopqrstuvwxyz"

UpperChars == "ABCDEFGHIJKLMNOPQRSTUVWXYZ"

UpperChar(c) ==
    IF \E i \in 1..26 : SubSeq(LowerChars, i, i) = c
    THEN LET i == CHOOSE j \in 1..26 : SubSeq(LowerChars, j, j) = c
         IN  SubSeq(UpperChars, i, i)
    ELSE c

RECURSIVE ToUpperCase(_)
ToUpperCase(s) ==
    IF s = "" THEN ""
    ELSE UpperChar(SubSeq(s, 1, 1)) \o ToUpperCase(SubSeq(s, 2, Len(s)))

StartsWith(s, p) == Len(s) >= Len(p) /\ SubSeq(s, 1, Len(p)) = p

RECURSIVE Pow10(_)
Pow10(k) == IF k = 0 THEN 1 ELSE 10 * Pow10(k - 1)

\* the element of a one-element set: Only({F(x) : x \in {e}}) is F(e), with e
\* evaluated once
Only(S) == CHOOSE x \in S : TRUE

---------------------------------------------------------------------------
(* Decimal numbers (bignumber.js): Dec(m, e) is m / 10^e *)

RECURSIVE DecNorm(_, _)
DecNorm(m, e) ==
    IF e > 0 /\ m % 10 = 0 THEN DecNorm(m \div 10, e - 1) ELSE [m |-> m, e |-> e]

\* new BigNumber(raw).shiftedBy(-decimals), raw a string of digits
ShiftedBy(raw, decimals) == DecNorm(DigitsValue(raw), decimals)

MultipliedBy(a, b) == DecNorm(a.m * b.m, a.e + b.e)

RECURSIVE PadLeft(_, _)
PadLeft(s, n) == IF Len(s) >= n THEN s ELSE PadLeft("0" \o s, n)

\* BigNumber.toFixed() and toString() of a value in the plain-notation range
DecToString(d) ==
    IF d.e = 0 THEN NatToString(d.m)
    ELSE NatToString(d.m \div Pow10(d.e)) \o "."
            \o PadLeft(NatToString(d.m % Pow10(d.e)), d.e)

\* BigNumber.toFixed(n), n > 0: n decimal places, rounding half up
ToFixed(d, n) ==
    LET scaled == IF d.e <= n THEN d.m * Pow10(n - d.e)
                  ELSE (d.m + 5 * Pow10(d.e - n - 1)) \div Pow10(d.e - n)
    IN  NatToString(scaled \div Pow10(n)) \o "."
            \o PadLeft(NatToString(scaled % Pow10(n)), n)

\* BigNumber.toFixed(2)
ToFixed2(d) == ToFixed(d, 2)

---------------------------------------------------------------------------
(* The chain registry and the runtime settings *)

\* the fields of a chain-registry entry the plugin reads, plus the two
\* convenience fields (denom, decimals) buildChainInfo adds to it
RegistryEntry(name, prefix, cgID, rpcs, feeTokens) ==
    [chain_name |-> name, bech32_prefix |-> prefix, coingecko_id |-> cgID,
     apis_rpc |-> rpcs, fee_tokens |-> feeTokens,
     denom |-> Undefined, decimals |-> JsUndef]

\* average_gas_price 0.025 of a fee token
GasPrice025 == [m |-> 25, e |-> 3]

\* the default average gas price 0.01 of estimateGas
GasPrice001 == [m |-> 1, e |-> 2]

\* chain-registry as imported: a chain with everything, a second one, and one
\* that lists no fee token, no coingecko id and no RPC endpoint
InitialChains ==
    [n \in {"osmosis", "cosmoshub", "localnet"} |->
        CASE n = "osmosis" ->
                RegistryEntry("osmosis", "osmo", "osmosis",
                    <<"https://rpc.osmosis.zone">>,
                    <<[denom |-> "uosmo", average_gas_price |-> GasPrice025]>>)
          [] n = "cosmoshub" ->
                RegistryEntry("cosmoshub", "cosmos", "cosmos",
                    <<"https://rpc.cosmos.network">>,
                    <<[denom |-> "uatom", average_gas_price |-> GasPrice025]>>)
          [] OTHER ->
                RegistryEntry("localnet", "osmo", Undefined, <<>>, <<>>)]

\* runtime.getSetting(key)
getSetting(runtime, key) ==
    IF key \in DOMAIN runtime THEN runtime[key] ELSE Undefined

\* chains.find((c) => c.chain_name === chainName)
FindChain(reg, chainName) ==
    IF chainName \in DOMAIN reg THEN chainName ELSE Undefined

\* a plausible slip: Number(setting) with no default
CustomDecimals_NoDefault(decSetting) == NumberOf(Template(decSetting))

\* Number(runtime.getSetting("COSMOS_CHAIN_DECIMALS") || 6)
CustomDecimals(decSetting) ==
    IF Truthy(decSetting) THEN NumberOf(decSetting) ELSE Num(6)

\* a plausible slip: the first fee token's denom with no fallback
ChainDenom_NoFallback(chainData) ==
    IF Len(chainData.fee_tokens) > 0 THEN chainData.fee_tokens[1].denom ELSE Undefined

\* chainData.fees?.fee_tokens?.[0]?.denom || "uosmo"
ChainDenom(chainData) ==
    IF Len(chainData.fee_tokens) > 0 /\ Truthy(chainData.fee_tokens[1].denom)
    THEN chainData.fee_tokens[1].denom ELSE "uosmo"

\* buildChainInfo(runtime): the chain info, or the error thrown.  `ref` names
\* the registry entry the result IS (the function returns the entry itself,
\* after writing denom, decimals and a missing coingecko_id into it), and
\* `chains` is the registry afterwards.
buildChainInfo(runtime, reg) ==
    LET mnemonic == getSetting(runtime, "COSMOS_MNEMONIC")
        chainName == getSetting(runtime, "COSMOS_CHAIN_NAME")
        customRpc == getSetting(runtime, "COSMOS_RPC_URL")
        coingeckoID == getSetting(runtime, "COSMOS_COINGECKO_ID")
        customDenom == getSetting(runtime, "COSMOS_CHAIN_DENOM")
        decSetting == getSetting(runtime, "COSMOS_CHAIN_DECIMALS")
        customDecimals == CustomDecimals(decSetting)
        bech32Prefix == getSetting(runtime, "COSMOS_BECH32_PREFIX")
        found == FindChain(reg, chainName)
    IN  IF ~Truthy(mnemonic)
        THEN [ok |-> FALSE, error |-> "COSMOS_MNEMONIC not configured", chains |-> reg]
        ELSE IF Truthy(customRpc)
        THEN [ok |-> TRUE, ref |-> Undefined, chains |-> reg, usedRegistry |-> FALSE,
              info |-> [chain_name |-> chainName, bech32_prefix |-> bech32Prefix,
                        coingecko_id |-> coingeckoID, apis_rpc |-> <<customRpc>>,
                        denom |-> customDenom, decimals |-> customDecimals,
                        fee_tokens |-> <<[denom |-> customDenom,
                                          average_gas_price |-> GasPrice025]>>]]
        ELSE IF found = Undefined
        THEN [ok |-> FALSE, chains |-> reg,
              error |-> "Chain '" \o Template(chainName) \o "' not found in chain-registry"]
        ELSE LET chainData == reg[found]
                 chainDenom == ChainDenom(chainData)
                 chainDecimals ==
                    IF chainData.decimals = JsUndef THEN Num(6) ELSE chainData.decimals
                 written == [chainData EXCEPT
                    !.coingecko_id = IF ~Truthy(@) THEN coingeckoID ELSE @,
                    !.denom = chainDenom,
                    !.decimals = chainDecimals]
             IN  [ok |-> TRUE, ref |-> found, info |-> written, usedRegistry |-> TRUE,
                  chains |-> [reg EXCEPT ![found] = written]]

---------------------------------------------------------------------------
(* Calls in flight *)

\* no call is in flight
NoneInFlight == EmptyBag

\* the frames of the calls in flight
InFlight == BagToSet(pending)

\* another call can be made
CanStart == BagCardinality(pending) < MaxInFlight

\* the calls in flight once a call has reached its first await at `frame`
Launched(frame) == pending (+) SetToBag({frame})

\* the calls in flight once the call at `frame` has returned
Landed(frame) == pending (-) SetToBag({frame})

\* the calls in flight once the call at `frame` has gone on to `next`
Moved(frame, next) == (pending (-) SetToBag({frame})) (+) SetToBag({next})

\* a plausible slip: the calls a step makes are put before those made so far
Called_Before(calls, made) == made \o calls

\* the calls a function has made once it makes `made`: an await lets the
\* next call start only when the one before has completed
Called(calls, made) == calls \o made

\* `${error}` of an Error: its name and its message
ErrorText(thrown) == thrown.errorName \o ": " \o thrown.error

---------------------------------------------------------------------------
(* connectWallet *)

\* the requests connectWallet awaits, one after the other
ConnectRequests == {"getOfflineSigner", "connectWithSigner", "getAccounts"}

\* connectWallet(runtime) up to its first await: the error it throws, or the
\* chain info it built and the request it waits for.  `chains` is the
\* registry afterwards.
connectWalletBegin(runtime, reg) ==
    LET mnemonic == getSetting(runtime, "COSMOS_MNEMONIC")
    IN  IF ~Truthy(mnemonic)
        THEN [state |-> "failed", errorName |-> "Error",
              error |-> "COSMOS_MNEMONIC not set in environment", chains |-> reg]
        ELSE Only({
            IF ~built.ok
            THEN [state |-> "failed", errorName |-> "Error", error |-> built.error,
                  chains |-> built.chains]
            ELSE IF Len(built.info.apis_rpc) = 0 \/ ~Truthy(built.info.apis_rpc[1])
            THEN [state |-> "failed", errorName |-> "Error",
                  error |-> "No RPC endpoint specified in chainInfo",
                  chains |-> built.chains]
            ELSE [state |-> "awaiting", pc |-> "getOfflineSigner",
                  chains |-> built.chains, chainInfo |-> built.info, ref |-> built.ref,
                  rpcUrl |-> built.info.apis_rpc[1]]
            : built \in {buildChainInfo(runtime, reg)}})

\* connectWallet resumed with the answer to the request it awaited at pc:
\* the error thrown, the next request, or the address of the first account
\* (reading the address of no account is a TypeError)
connectWalletResume(pc, answer) ==
    IF answer.throws
    THEN [state |-> "failed", errorName |-> "Error", error |-> answer.error]
    ELSE CASE pc = "getOfflineSigner" -> [state |-> "awaiting", pc |-> "connectWithSigner"]
           [] pc = "connectWithSigner" -> [state |-> "awaiting", pc |-> "getAccounts"]
           [] OTHER ->
                IF answer.accounts = <<>>
                THEN [state |-> "failed", errorName |-> "TypeError",
                      error |-> "Cannot read properties of undefined (reading 'address')"]
                ELSE [state |-> "connected", signerAddress |-> answer.accounts[1]]

---------------------------------------------------------------------------
(* estimateGas *)

\* {}: an object with no field
EmptyObject == <<>>

\* Math.ceil(gasEstimated * 1.3)
GasWithBuffer(gasEstimated) == (gasEstimated * 13 + 9) \div 10

\* new BigNumber(gas).multipliedBy(price).decimalPlaces(0, ROUND_UP).toFixed()
FeeAmount(gas, price) ==
    NatToString((gas * price.m + Pow10(price.e) - 1) \div Pow10(price.e))

\* estimateGas(msgs, memo, stargateClient, signer, chainInfo): simulate is the
\* chain's answer to stargateClient.simulate: it throws, or estimates a gas
estimateGas(simulate, chainInfo) ==
    IF simulate.throws
    THEN EmptyObject
    ELSE LET gasWithBuffer == GasWithBuffer(simulate.gas)
             hasFeeToken == Len(chainInfo.fee_tokens) > 0
             feeDenom ==
                IF hasFeeToken /\ Truthy(chainInfo.fee_tokens[1].denom)
                THEN chainInfo.fee_tokens[1].denom ELSE chainInfo.denom
             averageGasPrice ==
                IF hasFeeToken /\ chainInfo.fee_tokens[1].average_gas_price # JsUndef
                   /\ chainInfo.fee_tokens[1].average_gas_price.m # 0
                THEN chainInfo.fee_tokens[1].average_gas_price ELSE GasPrice001
         IN  [amount |-> <<[denom |-> feeDenom,
                            amount |-> FeeAmount(gasWithBuffer, averageGasPrice)]>>,
              gas |-> NatToString(gasWithBuffer)]

---------------------------------------------------------------------------
(* class WalletProvider of plugin-cosmos (the current one) *)

\* NodeCache({ stdTTL: 300 }): seconds an entry lives
StdTTL == 300

\* seconds the clock advances in one tick
TickSeconds == 200

\* new NodeCache(): no entry
EmptyCache == {}

\* cache.get(key): the live entry's value, else undefined (JsUndef)
CacheGet(cache, key, t) ==
    IF \E c \in cache : c.key = key /\ c.expires >= t
    THEN (CHOOSE c \in cache : c.key = key /\ c.expires >= t).value
    ELSE JsUndef

\* a plausible slip: the value is never stored
CacheSet_NoStore(cache, key, value, t) == cache

\* cache.set(key, value): the entry replaces an older one and lives StdTTL seconds
CacheSet(cache, key, value, t) ==
    {c \in cache : c.key # key /\ c.expires >= t}
        \cup {[key |-> key, value |-> value, expires |-> t + StdTTL]}

\* new WalletProvider(mnemonic, chainInfo): chainInfo by value, and by the
\* name of the registry entry it is when buildChainInfo took it from there
NewWalletProvider(mnemonic, built) ==
    [mnemonic |-> mnemonic, chainInfo |-> built.info, ref |-> built.ref,
     cache |-> EmptyCache, stargateClient |-> FALSE, signerAddress |-> Undefined]

\* this.chainInfo: the registry entry as it is now, or the object built from settings
ChainInfoOf(self, reg) ==
    IF self.ref = Undefined THEN self.chainInfo ELSE reg[self.ref]

\* the price 0
ZeroPrice == [m |-> 0, e |-> 0]

\* WalletProvider.fetchTokenPrice(cgID) up to its first await: it returns 0
\* when the cache holds no price for cgID, and asks the price service otherwise
fetchTokenPriceBegin(self, cgID, t) ==
    LET cachedPrice == CacheGet(self.cache, "price-" \o Template(cgID), t)
    IN  IF cachedPrice = JsUndef \/ cachedPrice = ZeroPrice
        THEN [done |-> TRUE, price |-> ZeroPrice]
        ELSE [done |-> FALSE]

\* fetchTokenPrice resumed with the answer to what it awaited at pc, the
\* response of `await fetch(url)` or the body of `await response.json()`:
\* it goes on to read the body of a response that is ok, and returns the
\* price (0 on any failure) with the cache as it leaves it
fetchTokenPriceResume(self, cgID, pc, answer, t) ==
    IF answer.throws
    THEN [done |-> TRUE, price |-> ZeroPrice, cache |-> self.cache]
    ELSE IF pc = "fetch"
    THEN IF ~answer.ok
         THEN [done |-> TRUE, price |-> ZeroPrice, cache |-> self.cache]
         ELSE [done |-> FALSE, price |-> ZeroPrice, cache |-> self.cache]
    ELSE LET p == IF answer.usd = JsUndef THEN ZeroPrice ELSE answer.usd
         IN  [done |-> TRUE, price |-> p,
              cache |-> CacheSet(self.cache, "price-" \o Template(cgID), p, t)]

\* balances.find((b) => b.denom === denom)?.amount ?? "0"
RawBalance(balances, denom) ==
    IF \E i \in 1..Len(balances) : balances[i].denom = denom
    THEN balances[CHOOSE i \in 1..Len(balances) :
                    /\ balances[i].denom = denom
                    /\ \A j \in 1..(i - 1) : balances[j].denom # denom].amount
    ELSE "0"

\* new BigNumber(s) for s a decimal numeral: digits, and at most one point
ParseDec(s) ==
    IF \E i \in 1..Len(s) : SubSeq(s, i, i) = "."
    THEN LET dot == CHOOSE i \in 1..Len(s) : SubSeq(s, i, i) = "."
         IN  DecNorm(DigitsValue(SubSeq(s, 1, dot - 1) \o SubSeq(s, dot + 1, Len(s))),
                     Len(s) - dot)
    ELSE DecNorm(DigitsValue(s), 0)

\* the local variables of a fetchPortfolioValue that awaits at pc
FetchFrame(pc, key, calls) ==
    [pc |-> pc, key |-> key, calls |-> calls, denom |-> Undefined,
     decimals |-> JsUndef, rawBalance |-> "0", cgID |-> Undefined,
     price |-> ZeroPrice]

\* fetchPortfolioValue goes on to make `request` and awaits its answer
Await(f, request) == [f EXCEPT !.pc = request, !.calls = Called(@, <<request>>)]

\* fetchPortfolioValue throws
FetchFailed(f, self, error) ==
    [done |-> TRUE, self |-> self,
     result |-> [ok |-> FALSE, hit |-> FALSE, error |-> error, key |-> f.key,
                 calls |-> f.calls]]

\* WalletProvider.fetchPortfolioValue(runtime) called at time t, up to its
\* first await: the cached portfolio, the error connectWallet throws before
\* it awaits, or the frame of the call.  `self` is the instance and `chains`
\* the registry afterwards.  An instance that is connected goes on when
\* `await this.connectWallet(runtime)` lets it.
fetchPortfolioValueBegin(self, runtime, reg, t) ==
    LET cacheKey == "portfolio-" \o Template(ChainInfoOf(self, reg).chain_name)
        cachedValue == CacheGet(self.cache, cacheKey, t)
    IN  IF cachedValue # JsUndef
        THEN [done |-> TRUE, self |-> self, chains |-> reg,
              result |-> [ok |-> TRUE, hit |-> TRUE, portfolio |-> cachedValue,
                          key |-> cacheKey, calls |-> <<>>]]
        ELSE IF self.stargateClient /\ Truthy(self.signerAddress)
        THEN [done |-> FALSE, self |-> self, chains |-> reg,
              fetch |-> FetchFrame("this.connectWallet", cacheKey, <<>>)]
        ELSE Only({
            IF c.state = "failed"
            THEN [done |-> TRUE, self |-> self, chains |-> c.chains,
                  result |-> [ok |-> FALSE, hit |-> FALSE, error |-> c.error,
                              key |-> cacheKey, calls |-> <<>>]]
            ELSE [done |-> FALSE, self |-> self, chains |-> c.chains,
                  fetch |-> FetchFrame(c.pc, cacheKey, Called(<<>>, <<c.pc>>))]
            : c \in {connectWalletBegin(runtime, reg)}})

\* the portfolio fetchPortfolioValue builds of the balance and the price it got
PortfolioOf(f, chainInfo) ==
    Only({Only({
        [totalUsd |-> valueUsd,
         tokens |-> <<[name |-> chainInfo.chain_name,
                       symbol |-> ToUpperCase(f.denom),
                       decimals |-> f.decimals,
                       balance |-> f.rawBalance,
                       uiAmount |-> DecToString(convertedBalance),
                       priceUsd |-> DecToString(f.price),
                       valueUsd |-> valueUsd]>>]
        : valueUsd \in {DecToString(MultipliedBy(convertedBalance, f.price))}})
        : convertedBalance \in {ShiftedBy(f.rawBalance, f.decimals.v)}})

\* fetchPortfolioValue resumed at time t with the answer to what it awaited
\* at f.pc: it runs to its next await or to its end, on the instance and the
\* registry as they are now
fetchPortfolioValueResume(f, self, reg, answer, t) ==
    CASE f.pc \in ConnectRequests ->
            \* connectWallet goes on; when it returns, WalletProvider.connectWallet
            \* keeps the client and the address
            Only({
                CASE c.state = "failed" -> FetchFailed(f, self, c.error)
                  [] c.state = "awaiting" ->
                        [done |-> FALSE, self |-> self, fetch |-> Await(f, c.pc)]
                  [] OTHER ->
                        [done |-> FALSE,
                         self |-> [self EXCEPT !.stargateClient = TRUE,
                                               !.signerAddress = c.signerAddress],
                         fetch |-> [f EXCEPT !.pc = "this.connectWallet"]]
                : c \in {connectWalletResume(f.pc, answer)}})
      [] f.pc = "this.connectWallet" ->
            \* the guard, the denom and the decimals, and the balances are asked for
            IF ~(self.stargateClient /\ Truthy(self.signerAddress))
            THEN FetchFailed(f, self, "Unable to fetch balances - not connected")
            ELSE LET chainInfo == ChainInfoOf(self, reg)
                 IN  [done |-> FALSE, self |-> self,
                      fetch |-> Await([f EXCEPT
                                  !.denom = IF chainInfo.denom = Undefined THEN "uosmo"
                                            ELSE chainInfo.denom,
                                  !.decimals = IF chainInfo.decimals = JsUndef THEN Num(6)
                                               ELSE chainInfo.decimals],
                                "getAllBalances")]
      [] f.pc = "getAllBalances" ->
            \* the balance of the denom, and fetchTokenPrice is called
            IF answer.throws
            THEN FetchFailed(f, self, answer.error)
            ELSE LET chainInfo == ChainInfoOf(self, reg)
                     cgID == IF Truthy(chainInfo.coingecko_id) THEN chainInfo.coingecko_id
                             ELSE "osmosis"
                     g == [f EXCEPT !.rawBalance = RawBalance(answer.balances, f.denom),
                                    !.cgID = cgID]
                     priced == fetchTokenPriceBegin(self, cgID, t)
                 IN  IF priced.done
                     THEN [done |-> FALSE, self |-> self,
                           fetch |-> [g EXCEPT !.pc = "fetchTokenPrice",
                                               !.price = priced.price]]
                     ELSE [done |-> FALSE, self |-> self, fetch |-> Await(g, "fetch")]
      [] f.pc \in {"fetch", "response.json"} ->
            \* fetchTokenPrice goes on: it reads the body, or returns
            Only({
                IF priced.done
                THEN [done |-> FALSE, self |-> [self EXCEPT !.cache = priced.cache],
                      fetch |-> [f EXCEPT !.pc = "fetchTokenPrice",
                                          !.price = priced.price]]
                ELSE [done |-> FALSE, self |-> self, fetch |-> Await(f, "response.json")]
                : priced \in {fetchTokenPriceResume(self, f.cgID, f.pc, answer, t)}})
      [] OTHER ->
            \* f.pc = "fetchTokenPrice": the portfolio is built and cached
            IF f.decimals = JsNaN
            THEN FetchFailed(f, self, "[BigNumber Error] Argument not an integer: NaN")
            ELSE Only({
                [done |-> TRUE,
                 self |-> [self EXCEPT !.cache = CacheSet(@, f.key, portfolio, t)],
                 result |-> [ok |-> TRUE, hit |-> FALSE, portfolio |-> portfolio,
                             key |-> f.key, calls |-> f.calls]]
                : portfolio \in {PortfolioOf(f, ChainInfoOf(self, reg))}})

\* one line per token of formatPortfolio's "Token Balances"
RECURSIVE BalanceLines(_)
BalanceLines(tokens) ==
    IF tokens = <<>> THEN ""
    ELSE Template(Head(tokens).name) \o " (" \o Head(tokens).symbol \o "): "
            \o Head(tokens).uiAmount \o " ($" \o ToFixed2(ParseDec(Head(tokens).valueUsd))
            \o ")\n" \o BalanceLines(Tail(tokens))

\* one line per token of formatPortfolio's "Market Prices"
RECURSIVE PriceLines(_)
PriceLines(tokens) ==
    IF tokens = <<>> THEN ""
    ELSE Head(tokens).symbol \o ": $" \o ToFixed2(ParseDec(Head(tokens).priceUsd))
            \o "\n" \o PriceLines(Tail(tokens))

\* WalletProvider.formatPortfolio(portfolio)
formatPortfolio(self, reg, portfolio) ==
    "Chain: " \o Template(ChainInfoOf(self, reg).chain_name) \o "\n"
        \o (IF Truthy(self.signerAddress)
            THEN "Account Address: " \o self.signerAddress \o "\n\n" ELSE "")
        \o "Total Value: $" \o ToFixed2(ParseDec(portfolio.totalUsd))
        \o "\n\nToken Balances:\n" \o BalanceLines(portfolio.tokens)
        \o "\nMarket Prices:\n" \o PriceLines(portfolio.tokens)

\* the text getFormattedPortfolio answers when fetching throws
UnableToFetch == "Unable to fetch wallet information. Please try again later."

\* WalletProvider.getFormattedPortfolio(runtime) once fetchPortfolioValue has
\* returned or thrown (fetched): the report, or the text of its catch
getFormattedPortfolio(self, reg, fetched) ==
    IF fetched.ok THEN formatPortfolio(self, reg, fetched.portfolio)
    ELSE UnableToFetch

\* null, where a string is expected
Null == "<null>"

\* a plausible slip: the catch answers like getFormattedPortfolio's
GetCaught_Text(error, reg, usedRegistry) ==
    [ret |-> UnableToFetch, error |-> error, chains |-> reg,
     instances |-> 1, calls |-> <<>>, usedRegistry |-> usedRegistry]

\* the catch of walletProvider.get: the error is logged and null returned
GetCaught(error, reg, usedRegistry) ==
    [ret |-> Null, error |-> error, chains |-> reg,
     instances |-> 0, calls |-> <<>>, usedRegistry |-> usedRegistry]

\* what walletProvider.get returns once the fetchPortfolioValue of its
\* instance has returned or thrown: the text, the instance it built and the
\* calls it made
GetReturned(self, reg, fetched, usedRegistry, chainInfo) ==
    [ret |-> getFormattedPortfolio(self, reg, fetched), fetched |-> fetched,
     chains |-> reg, instances |-> 1, calls |-> fetched.calls,
     usedRegistry |-> usedRegistry, chainInfo |-> chainInfo]

\* walletProvider.get(runtime, message, state) called at time t, up to its
\* first await: what it returns, or the frame of the call with the instance
\* it built
walletProviderGetBegin(runtime, reg, t) ==
    LET mnemonic == getSetting(runtime, "COSMOS_MNEMONIC")
    IN  IF ~Truthy(mnemonic)
        THEN [done |-> TRUE, chains |-> reg,
              result |-> GetCaught("COSMOS_MNEMONIC not configured", reg, FALSE)]
        ELSE Only({
            IF ~built.ok
            THEN [done |-> TRUE, chains |-> built.chains,
                  result |-> GetCaught(built.error, built.chains, TRUE)]
            ELSE Only({
                IF p.done
                THEN [done |-> TRUE, chains |-> p.chains,
                      result |-> GetReturned(p.self, p.chains, p.result,
                                             built.usedRegistry, built.info)]
                ELSE [done |-> FALSE, chains |-> p.chains,
                      frame |-> [op |-> "walletProvider.get", self |-> p.self,
                                 fetch |-> p.fetch, at |-> t, runtime |-> runtime,
                                 usedRegistry |-> built.usedRegistry,
                                 chainInfo |-> built.info]]
                : p \in {fetchPortfolioValueBegin(NewWalletProvider(mnemonic, built),
                                                  runtime, built.chains, t)}})
            : built \in {buildChainInfo(runtime, reg)}})

\* walletProvider.get resumed at time t with the answer to what it awaited
walletProviderGetResume(frame, reg, answer, t) ==
    Only({
        IF p.done
        THEN [done |-> TRUE,
              result |-> GetReturned(p.self, reg, p.result, frame.usedRegistry,
                                     frame.chainInfo)]
        ELSE [done |-> FALSE,
              frame |-> [frame EXCEPT !.self = p.self, !.fetch = p.fetch]]
        : p \in {fetchPortfolioValueResume(frame.fetch, frame.self, reg, answer, t)}})

---------------------------------------------------------------------------
(* The environment: settings, the answers to requests, and the state before any call *)

NoOp == [op |-> "none"]

NoOut == [new |-> NoOp, old |-> NoOp]

NoInstance == [exists |-> FALSE]

\* the address of the signer's first account
SignerAddress == "osmo1signer"

\* the request has been served
Served == [throws |-> FALSE]

\* the request fails: the promise rejects with an Error of this message
Rejected(message) == [throws |-> TRUE, error |-> message]

\* What a request of the plugin can be answered.  Every awaited request can
\* fail; one that is served answers with the accounts of the signer, the
\* balances of the address, an estimate of gas, the result of a broadcast,
\* the response to GET /status.  What is awaited of the plugin's own
\* functions is always served.
AnswersTo(request) ==
    CASE request = "getOfflineSigner" -> {Rejected("signer failed"), Served}
      [] request = "connectWithSigner" -> {Rejected("connect failed"), Served}
      [] request = "getAccounts" ->
            {[throws |-> FALSE, accounts |-> a] :
                a \in {<<>>, <<SignerAddress>>, <<"">>}}
      [] request = "getAllBalances" ->
            {Rejected("query failed")} \cup
            {[throws |-> FALSE, balances |-> b] :
                b \in {<<>>,
                       <<[denom |-> "uosmo", amount |-> "1230000"]>>,
                       <<[denom |-> "uatom", amount |-> "7"],
                         [denom |-> "uenvdenom", amount |-> "12345"]>>}}
      [] request = "simulate" ->
            {Rejected("simulate failed"), [throws |-> FALSE, gas |-> 100001]}
      [] request \in {"sendTokens", "signAndBroadcast"} ->
            {Rejected("broadcast failed"),
             [throws |-> FALSE, code |-> 0, transactionHash |-> "A1B2"],
             [throws |-> FALSE, code |-> 5, transactionHash |-> "C3D4"]}
      [] request = "GET /status" ->
            {Rejected("fetch failed"),
             [throws |-> FALSE, ok |-> FALSE, status |-> 503],
             [throws |-> FALSE, ok |-> TRUE, status |-> 200]}
      [] request \in {"composeState", "updateRecentMessageState"} ->
            {Rejected("no state"), Served}
      [] OTHER -> {Served}

\* the values each setting of the wallet provider takes
ProviderSettings ==
    [COSMOS_MNEMONIC |-> {Undefined, "", "unfold client turtle"},
     COSMOS_CHAIN_NAME |-> {Undefined, "osmosis", "localnet", "nochain"},
     COSMOS_RPC_URL |-> {Undefined, "https://rpc.osmosis.zone/"},
     COSMOS_COINGECKO_ID |-> {Undefined, "cosmos"},
     COSMOS_CHAIN_DENOM |-> {Undefined, "uenvdenom"},
     COSMOS_CHAIN_DECIMALS |-> {Undefined, "4", "abc"},
     COSMOS_BECH32_PREFIX |-> {"osmo"}]

\* the runtime of wallet.test.ts's first test (the mnemonic shortened)
TestRuntime ==
    [COSMOS_MNEMONIC |-> "unfold client turtle",
     COSMOS_CHAIN_NAME |-> "osmosis",
     COSMOS_RPC_URL |-> "https://rpc.osmosis.zone/",
     COSMOS_COINGECKO_ID |-> Undefined,
     COSMOS_CHAIN_DENOM |-> "uenvdenom",
     COSMOS_CHAIN_DECIMALS |-> "4",
     COSMOS_BECH32_PREFIX |-> "osmo"]

\* what the price service answers a request just now: a USD price
PriceQuoted == [throws |-> FALSE, ok |-> TRUE, usd |-> [m |-> 9, e |-> 1]]

\* the price service is down
PriceDown == [throws |-> FALSE, ok |-> FALSE]

\* what a wallet query is answered at f.pc; the price service answers what
\* it quotes (req.price): the response, and then its body
ProviderAnswers(f) ==
    CASE f.pc = "fetch" -> {[throws |-> req.price.throws, ok |-> req.price.ok]}
      [] f.pc = "response.json" ->
            {Rejected("Unexpected end of JSON input"),
             [throws |-> FALSE, usd |-> req.price.usd]}
      [] OTHER -> AnswersTo(f.pc)

InitProvider ==
    /\ chains = InitialChains
    /\ wp = NoInstance
    /\ teeWp = NoInstance
    /\ now = 0
    /\ req = [runtime |-> TestRuntime, price |-> PriceQuoted]
    /\ out = NoOut
    /\ last = NoOp
    /\ pending = NoneInFlight

\* The agent's settings change: one setting takes another value.  A call
\* reads the settings before its first await and never after (its frame
\* carries what it read), and what a call writes to a registry entry that a
\* call in flight reads (an entry with an RPC address and a coingecko_id:
\* its denom and decimals, lines 448-453) does not depend on the settings;
\* so a change of settings while calls are in flight shows nothing that a
\* change once they have returned does not, and it is taken then.
Configure(settings) ==
    /\ pending = NoneInFlight
    /\ \E k \in DOMAIN settings : \E v \in settings[k] :
          /\ v # req.runtime[k]
          /\ req' = [req EXCEPT !.runtime[k] = v]
    /\ last' = NoOp
    /\ out' = NoOut
    /\ UNCHANGED <<chains, wp, teeWp, now, pending>>

\* a call of buildChainInfo(runtime)
BuildChainInfo ==
    \E built \in {buildChainInfo(req.runtime, chains)} :
        /\ last' = [op |-> "buildChainInfo", result |-> built, runtime |-> req.runtime]
        /\ chains' = built.chains
        /\ UNCHANGED <<wp, teeWp, now, req, out, pending>>

\* what a call remembers of the call that returned in the step before it
\* was made, when that was a walletProvider.get that returned a portfolio:
\* when it was made and what it returned
PreviousGet ==
    IF last.op = "walletProvider.get" /\ last.result.ret \notin {Null, UnableToFetch}
    THEN [op |-> last.op, at |-> last.at, ret |-> last.result.ret]
    ELSE NoOp

\* walletProvider.get has returned result
GetReturns(result, runtime, at, previous) ==
    [op |-> "walletProvider.get", result |-> result, runtime |-> runtime,
     at |-> at, previous |-> previous]

\* a call of walletProvider.get(runtime, message, state): it returns, or it
\* is in flight from its first await on
WalletProviderGet ==
    /\ CanStart
    /\ \E p \in {walletProviderGetBegin(req.runtime, chains, now)} :
          /\ chains' = p.chains
          /\ IF p.done
             THEN /\ last' = GetReturns(p.result, req.runtime, now, PreviousGet)
                  /\ pending' = pending
             ELSE /\ last' = NoOp
                  /\ pending' = Launched(p.frame @@ [previous |-> PreviousGet])
    /\ UNCHANGED <<wp, teeWp, now, req, out>>

\* a request that a walletProvider.get in flight awaits is answered, and the
\* call goes on to its next await or returns
WalletProviderGetResumes ==
    \E frame \in InFlight :
        /\ frame.op = "walletProvider.get"
        /\ \E answer \in ProviderAnswers(frame.fetch) :
              \E p \in {walletProviderGetResume(frame, chains, answer, now)} :
                  IF p.done
                  THEN /\ last' = GetReturns(p.result, frame.runtime, frame.at,
                                             frame.previous)
                       /\ pending' = Landed(frame)
                  ELSE /\ last' = NoOp
                       /\ pending' = Moved(frame, p.frame)
        /\ UNCHANGED <<chains, wp, teeWp, now, req, out>>

\* connectWallet(runtime) has returned or thrown
ConnectReturns(result, runtime) ==
    [op |-> "connectWallet", result |-> result, runtime |-> runtime]

\* a call of the exported connectWallet(runtime)
ConnectWallet ==
    /\ CanStart
    /\ \E c \in {connectWalletBegin(req.runtime, chains)} :
          /\ chains' = c.chains
          /\ IF c.state = "failed"
             THEN /\ last' = ConnectReturns([ok |-> FALSE, error |-> c.error,
                                             calls |-> <<>>], req.runtime)
                  /\ pending' = pending
             ELSE /\ last' = NoOp
                  /\ pending' = Launched([op |-> "connectWallet", pc |-> c.pc,
                                          runtime |-> req.runtime,
                                          chainInfo |-> c.chainInfo, ref |-> c.ref,
                                          calls |-> Called(<<>>, <<c.pc>>)])
    /\ UNCHANGED <<wp, teeWp, now, req, out>>

\* a request that a connectWallet in flight awaits is answered; when it
\* returns, its chainInfo is the registry entry as it is then
ConnectWalletResumes ==
    \E frame \in InFlight :
        /\ frame.op = "connectWallet"
        /\ \E answer \in AnswersTo(frame.pc) :
              \E c \in {connectWalletResume(frame.pc, answer)} :
                  CASE c.state = "failed" ->
                        /\ last' = ConnectReturns([ok |-> FALSE, error |-> c.error,
                                                   calls |-> frame.calls],
                                                  frame.runtime)
                        /\ pending' = Landed(frame)
                    [] c.state = "awaiting" ->
                        /\ last' = NoOp
                        /\ pending' = Moved(frame,
                                [frame EXCEPT !.pc = c.pc,
                                              !.calls = Called(@, <<c.pc>>)])
                    [] OTHER ->
                        /\ last' = ConnectReturns(
                                [ok |-> TRUE, signerAddress |-> c.signerAddress,
                                 chainInfo |-> ChainInfoOf(frame, chains),
                                 calls |-> frame.calls], frame.runtime)
                        /\ pending' = Landed(frame)
        /\ UNCHANGED <<chains, wp, teeWp, now, req, out>>

NextProvider ==
    \/ Configure(ProviderSettings)
    \/ BuildChainInfo
    \/ WalletProviderGet
    \/ WalletProviderGetResumes
    \/ ConnectWallet
    \/ ConnectWalletResumes

SpecProvider == InitProvider /\ [][NextProvider]_vars

---------------------------------------------------------------------------
(* The transfer action COSMOS_SEND_TOKEN (actions/transfer.ts) *)

\* typeof v === "string"
IsString(v) == v.t = "string"

\* typeof v === "number"
IsNumber(v) == v.t \in {"number", "NaN"}

\* !!v for a string, a number, null or undefined
TruthyValue(v) ==
    CASE v.t = "string" -> v.v # ""
      [] v.t = "number" -> v.v # 0
      [] OTHER -> FALSE

\* text.includes(phrase)
Includes(text, phrase) ==
    \E i \in 1..(Len(text) - Len(phrase) + 1) :
        SubSeq(text, i, i + Len(phrase) - 1) = phrase

\* isTransferCosmosContent(content), content.recipient a string when truthy
isTransferCosmosContent_NoPrefixCheck(content) ==
    /\ IsString(content.tokenDenom)
    /\ (IsString(content.amount) \/ IsNumber(content.amount))
    /\ ~(TruthyValue(content.memo) /\ ~IsString(content.memo))

isTransferCosmosContent(content) ==
    LET validTypes ==
            /\ IsString(content.tokenDenom)
            /\ (IsString(content.amount) \/ IsNumber(content.amount))
    IN  IF ~validTypes THEN FALSE
        ELSE IF /\ TruthyValue(content.recipient)
                /\ ~(\/ StartsWith(content.recipient.v, "cosmos1")
                     \/ StartsWith(content.recipient.v, "osmo1"))
        THEN FALSE
        ELSE IF TruthyValue(content.memo) /\ ~IsString(content.memo) THEN FALSE
        ELSE TRUE

MemoSuffix == " - sent via Vitwit's Eliza Cosmos plugin"

\* newMemo: the extracted memo, as + converts it to a string, then the suffix
NewMemo_NoSuffix(memo) == StringOf(memo)

NewMemo(memo) == StringOf(memo) \o MemoSuffix

\* the callback the handler is called with: absent, or a function that throws
\* synchronously on the responses of the kinds in throwsOn ("refusal" for
\* the early returns, "success", "failure" for the catch)
NoCallback == [present |-> FALSE, throwsOn |-> {}]

ReturningCallback == [present |-> TRUE, throwsOn |-> {}]

CallbackError == "callback failed"

\* if (callback) { callback({ text, content }) }: the calls made, and whether
\* the callback threw
Notify(callback, kind, text, content) ==
    IF ~callback.present THEN [callbacks |-> <<>>, threw |-> FALSE]
    ELSE [callbacks |-> <<[text |-> text, content |-> content]>>,
          threw |-> kind \in callback.throwsOn]

\* an early return of the handler: the callback gets `error`, the result is
\* false; a callback that throws makes the handler reject (threw), and ret
\* then has no meaning
Refused(text, error, reg, callback) ==
    Only({[ret |-> FALSE, threw |-> n.threw, chains |-> reg, calls |-> <<>>,
           callbacks |-> n.callbacks]
          : n \in {Notify(callback, "refusal", text, [error |-> error])}})

\* the catch of the handler: the callback gets the text and { message: content };
\* before are the callback calls made in the try block
Caught(message, content, reg, calls, callback, before) ==
    Only({[ret |-> FALSE, threw |-> n.threw, chains |-> reg, calls |-> calls,
           callbacks |-> before \o n.callbacks]
          : n \in {Notify(callback, "failure",
                          "Error transferring tokens: " \o message,
                          [message |-> content])}})

\* an await outside the try block rejects: so does the handler
HandlerRejects(reg, calls) ==
    [ret |-> FALSE, threw |-> TRUE, chains |-> reg, calls |-> calls,
     callbacks |-> <<>>]

\* result.code !== 0
NonZeroCode_Ignored(result) == FALSE

NonZeroCode(result) == result.code # 0

\* the handler up to its first await: it asks the runtime for the state of
\* the conversation, composeState(message) when it is called without a
\* state and updateRecentMessageState(state) when it is called with one
handlerBegin(hasState) ==
    [op |-> "COSMOS_SEND_TOKEN", calls |-> <<>>,
     pc |-> IF hasState THEN "updateRecentMessageState" ELSE "composeState"]

\* the message the handler simulates
cosmosBankMsgForFees(content, signerAddress) ==
    [typeUrl |-> "/cosmos.bank.v1beta1.MsgSend",
     fromAddress |-> signerAddress, toAddress |-> content.recipient.v,
     amount |-> <<[denom |-> content.tokenDenom.v,
                   amount |-> StringOf(content.amount)]>>]

\* the handler once generateObjectDeprecated has answered `content`: the
\* guards, and connectWallet up to its first await
handlerExtracted(f, runtime, reg, content, callback) ==
    IF ~isTransferCosmosContent(content)
    THEN [done |-> TRUE, chains |-> reg,
          result |-> Refused("Not enough information to transfer tokens on Cosmos. Need 'tokenDenom', 'recipient', 'amount'.",
                             "Invalid cosmos transfer content", reg, callback)]
    ELSE IF ~TruthyValue(content.recipient)
    THEN [done |-> TRUE, chains |-> reg,
          result |-> Refused("No valid recipient for Cosmos transfer. Please provide an address.",
                             "Missing recipient", reg, callback)]
    ELSE IF ~TruthyValue(content.amount)
    THEN [done |-> TRUE, chains |-> reg,
          result |-> Refused("No valid amount for Cosmos transfer. Please provide a numeric value.",
                             "Missing amount", reg, callback)]
    ELSE Only({
        IF c.state = "failed"
        THEN [done |-> TRUE, chains |-> c.chains,
              result |-> Caught(c.error, content, c.chains,
                                Called(f.calls, <<[call |-> "connectWallet"]>>),
                                callback, <<>>)]
        ELSE [done |-> FALSE, chains |-> c.chains,
              frame |-> [op |-> f.op, pc |-> c.pc, content |-> content,
                         chainInfo |-> c.chainInfo, ref |-> c.ref,
                         calls |-> Called(f.calls, <<[call |-> "connectWallet"],
                                                     [call |-> c.pc]>>)]]
        : c \in {connectWalletBegin(runtime, reg)}})

\* the handler once connectWallet has returned: estimateGas is called and
\* asks the chain to simulate the message
handlerConnected(f, signerAddress) ==
    LET msgs == <<cosmosBankMsgForFees(f.content, signerAddress)>>
        newMemo == NewMemo(f.content.memo)
    IN  [op |-> f.op, pc |-> "simulate", content |-> f.content,
         chainInfo |-> f.chainInfo, ref |-> f.ref, signerAddress |-> signerAddress,
         calls |-> Called(f.calls,
                    <<[call |-> "estimateGas", signer |-> signerAddress,
                       msgs |-> msgs, memo |-> newMemo],
                      [call |-> "simulate", signer |-> signerAddress,
                       msgs |-> msgs, memo |-> newMemo]>>)]

\* the handler once estimateGas has returned fee: sendTokens is called
handlerEstimated(f, fee) ==
    [f EXCEPT !.pc = "sendTokens",
              !.calls = Called(@, <<[call |-> "sendTokens",
                                     sender |-> f.signerAddress,
                                     recipient |-> f.content.recipient.v,
                                     amount |-> <<[denom |-> f.content.tokenDenom.v,
                                                   amount |-> StringOf(f.content.amount)]>>,
                                     fee |-> fee,
                                     memo |-> NewMemo(f.content.memo)]>>)]

\* the handler once sendTokens has returned result
handlerSent(f, reg, result, callback) ==
    IF NonZeroCode(result)
    THEN Caught("Broadcast failed with code " \o NatToString(result.code),
                f.content, reg, f.calls, callback, <<>>)
    ELSE Only({
        IF n.threw
        THEN Caught(CallbackError, f.content, reg, f.calls, callback, n.callbacks)
        ELSE [ret |-> TRUE, threw |-> FALSE, chains |-> reg, calls |-> f.calls,
              callbacks |-> n.callbacks]
        : n \in {Notify(callback, "success",
                        "Transfer completed successfully! TxHash: "
                            \o result.transactionHash,
                        EmptyObject)}})

\* The handler of COSMOS_SEND_TOKEN resumed with the answer to what it
\* awaited at f.pc: it runs to its next await or to its end.  runtime and
\* callback are what it was called with, reg the registry as it is now.
handlerResume(f, runtime, reg, callback, answer) ==
    CASE f.pc \in {"composeState", "updateRecentMessageState"} ->
            IF answer.throws
            THEN [done |-> TRUE, chains |-> reg, result |-> HandlerRejects(reg, f.calls)]
            ELSE [done |-> FALSE, chains |-> reg,
                  frame |-> [f EXCEPT !.pc = "generateObject"]]
      [] f.pc = "generateObject" ->
            IF answer.throws
            THEN [done |-> TRUE, chains |-> reg, result |-> HandlerRejects(reg, f.calls)]
            ELSE handlerExtracted(f, runtime, reg, answer.content, callback)
      [] f.pc \in ConnectRequests ->
            Only({
                CASE c.state = "failed" ->
                        [done |-> TRUE, chains |-> reg,
                         result |-> Caught(c.error, f.content, reg, f.calls,
                                           callback, <<>>)]
                  [] c.state = "awaiting" ->
                        [done |-> FALSE, chains |-> reg,
                         frame |-> [f EXCEPT !.pc = c.pc,
                                             !.calls = Called(@, <<[call |-> c.pc]>>)]]
                  [] OTHER ->
                        [done |-> FALSE, chains |-> reg,
                         frame |-> handlerConnected(f, c.signerAddress)]
                : c \in {connectWalletResume(f.pc, answer)}})
      [] f.pc = "simulate" ->
            [done |-> FALSE, chains |-> reg,
             frame |-> handlerEstimated(f, estimateGas(answer, ChainInfoOf(f, reg)))]
      [] OTHER ->
            \* f.pc = "sendTokens"
            IF answer.throws
            THEN [done |-> TRUE, chains |-> reg,
                  result |-> Caught(answer.error, f.content, reg, f.calls,
                                    callback, <<>>)]
            ELSE [done |-> TRUE, chains |-> reg,
                  result |-> handlerSent(f, reg, answer, callback)]

---------------------------------------------------------------------------
(* The older transfer action SEND_COSMOS *)

\* isTransferContent(runtime, content)
isTransferContent(content) ==
    /\ IsString(content.recipient)
    /\ (IsString(content.amount) \/ IsNumber(content.amount))

\* a decimal numeral: digits with at most one point among them
IsNumeral(s) ==
    /\ s # "" /\ s # "."
    /\ \A i \in 1..Len(s) : IsDigit(SubSeq(s, i, i)) \/ SubSeq(s, i, i) = "."
    /\ Cardinality({i \in 1..Len(s) : SubSeq(s, i, i) = "."}) <= 1

\* a plausible slip: the amount goes out as extracted, not shifted
ShiftedAmount_Unshifted(amount, decimals) == amount

\* String(Math.floor(Number(amount) * 10 ** decimals)), for amounts that are
\* binary fractions (the product is then exact in floating point)
ShiftedAmount(amount, decimals) ==
    IF decimals = JsNaN THEN "NaN"
    ELSE IF amount = "" THEN "0"
    ELSE IF ~IsNumeral(amount) THEN "NaN"
    ELSE LET d == ParseDec(amount)
         IN  NatToString((d.m * Pow10(decimals.v)) \div Pow10(d.e))

\* Math.floor(gasEstimated * averageGasPrice).toString()
FloorFee(gasEstimated, price) ==
    NatToString((gasEstimated * price.m) \div Pow10(price.e))

\* s.endsWith(p)
EndsWith(s, p) == Len(s) >= Len(p) /\ SubSeq(s, Len(s) - Len(p) + 1, Len(s)) = p

\* the URL canGetStatus fetches
StatusUrl(rpcUrl) ==
    IF EndsWith(rpcUrl, "/") THEN rpcUrl \o "status" ELSE rpcUrl \o "/status"

\* canGetStatus(rpcUrl) once fetch has answered: true when the response is ok
canGetStatus(answer) == ~answer.throws /\ answer.ok

\* the handler of SEND_COSMOS up to its first await
executeTransferBegin(hasState) ==
    [op |-> "SEND_COSMOS", calls |-> <<>>,
     pc |-> IF hasState THEN "updateRecentMessageState" ELSE "composeState"]

\* the catch of the handler of SEND_COSMOS: the callback, if there is one,
\* is told `${error}` and the handler returns false; a callback that throws
\* there makes the handler reject.  `before` are the callback calls made in
\* the try block.
TransferFailed(thrown, calls, callback, before) ==
    Only({[done |-> TRUE,
           result |-> [ret |-> FALSE, threw |-> n.threw, calls |-> calls,
                       callbacks |-> before \o n.callbacks]]
          : n \in {Notify(callback, "failure",
                          "Error transferring tokens: " \o ErrorText(thrown),
                          [error |-> thrown.error])}})

\* an Error of this message
AnError(message) == [errorName |-> "Error", error |-> message]

\* an await outside the try block rejects: so does the handler
ExecuteTransferRejects(calls) ==
    [done |-> TRUE,
     result |-> [ret |-> FALSE, threw |-> TRUE, calls |-> calls, callbacks |-> <<>>]]

\* getWorkingRpcUrl asks for the /status of the first of the candidates left
AskStatus(f, candidates) ==
    [f EXCEPT !.pc = "GET /status", !.candidates = candidates,
              !.calls = Called(@, <<[call |-> "fetch",
                                     url |-> StatusUrl(Head(candidates))]>>)]

\* the handler once generateObject has answered `content`: the guard (its
\* callback is outside the try block, so a callback that throws there makes
\* the handler reject), and transferTokens(runtime, recipient, amount) up to
\* its first await
executeTransferExtracted(f, runtime, reg, content, callback) ==
    LET setName == getSetting(runtime, "COSMOS_CHAIN_NAME")
        chainName == IF Truthy(setName) THEN setName ELSE "osmosis"
        mnemonic == getSetting(runtime, "COSMOS_MNEMONIC")
        found == FindChain(reg, chainName)
        envRpc == getSetting(runtime, "COSMOS_RPC_URL")
    IN  IF ~isTransferContent(content)
        THEN Only({[done |-> TRUE,
                    result |-> [ret |-> FALSE, threw |-> n.threw, calls |-> f.calls,
                                callbacks |-> n.callbacks]]
                   : n \in {Notify(callback, "refusal",
                                   "Unable to process transfer request. Invalid content provided.",
                                   [error |-> "Invalid transfer content"])}})
        ELSE IF ~Truthy(mnemonic)
        THEN TransferFailed(AnError("COSMOS_MNEMONIC not configured"), f.calls, callback, <<>>)
        ELSE IF found = Undefined
        THEN TransferFailed(AnError("Chain '" \o chainName
                                        \o "' not found in chain-registry"), f.calls, callback, <<>>)
        ELSE LET candidateRpcs ==
                    (IF Truthy(envRpc) THEN <<envRpc>> ELSE <<>>) \o reg[found].apis_rpc
             IN  IF candidateRpcs = <<>>
                 THEN TransferFailed(AnError("No working RPC endpoint found for '"
                                                \o chainName \o "'"), f.calls, callback, <<>>)
                 ELSE [done |-> FALSE,
                       frame |-> AskStatus([op |-> f.op, pc |-> f.pc, calls |-> f.calls,
                                            content |-> content, chainName |-> chainName,
                                            chain |-> found, candidates |-> <<>>],
                                           candidateRpcs)]

\* transferTokens once getWorkingRpcUrl has returned workingRpc: the denom,
\* the decimals and the gas price, and the signer is asked for
transferTokensWithRpc(f, runtime, reg, workingRpc) ==
    LET chain == reg[f.chain]
        hasFees == Len(chain.fee_tokens) > 0
        envDenom == getSetting(runtime, "COSMOS_DENOM")
        envDecimals == getSetting(runtime, "COSMOS_DECIMALS")
        defaultDenom ==
            IF hasFees /\ Truthy(chain.fee_tokens[1].denom)
            THEN chain.fee_tokens[1].denom ELSE "uosmo"
    IN  [op |-> f.op, pc |-> "getOfflineSigner", content |-> f.content,
         workingRpc |-> workingRpc,
         denom |-> IF Truthy(envDenom) THEN envDenom ELSE defaultDenom,
         decimals |-> IF Truthy(envDecimals) THEN NumberOf(envDecimals) ELSE Num(6),
         averageGasPrice |->
            IF hasFees /\ chain.fee_tokens[1].average_gas_price # JsUndef
            THEN chain.fee_tokens[1].average_gas_price ELSE GasPrice025,
         calls |-> Called(f.calls, <<[call |-> "getOfflineSigner"]>>)]

\* the MsgSend transferTokens builds
TransferMsg(f, fromAddress) ==
    [typeUrl |-> "/cosmos.bank.v1beta1.MsgSend",
     fromAddress |-> fromAddress, toAddress |-> f.content.recipient.v,
     amount |-> <<[denom |-> f.denom,
                   amount |-> ShiftedAmount(StringOf(f.content.amount), f.decimals)]>>]

\* transferTokens once the signer has answered its accounts: the message is
\* built (coins() throws on an amount that is no unsigned integer) and the
\* chain is asked to simulate it
transferTokensSigned(f, fromAddress, callback) ==
    Only({
        IF ~AllDigits(msg.amount[1].amount)
        THEN TransferFailed(AnError("Invalid unsigned integer string format"), f.calls, callback, <<>>)
        ELSE [done |-> FALSE,
              frame |-> [op |-> f.op, pc |-> "simulate", content |-> f.content,
                         denom |-> f.denom, averageGasPrice |-> f.averageGasPrice,
                         fromAddress |-> fromAddress, msg |-> msg,
                         calls |-> Called(f.calls,
                                    <<[call |-> "simulate", signer |-> fromAddress,
                                       msgs |-> <<msg>>, memo |-> ""]>>)]]
        : msg \in {TransferMsg(f, fromAddress)}})

\* transferTokens once the chain has estimated the gas: the fee, and the
\* message is signed and broadcast
transferTokensSimulated(f, gasEstimated) ==
    LET fee == [amount |-> <<[denom |-> f.denom,
                              amount |-> FloorFee(gasEstimated, f.averageGasPrice)]>>,
                gas |-> NatToString(gasEstimated)]
    IN  [f EXCEPT !.pc = "signAndBroadcast",
                  !.calls = Called(@, <<[call |-> "signAndBroadcast",
                                         signer |-> f.fromAddress, msgs |-> <<f.msg>>,
                                         fee |-> fee, memo |-> ""]>>)]

\* the handler once transferTokens has returned txHash: the callback, if
\* there is one, is told of the success and the handler returns true; the
\* callback is called inside the try block, so one that throws there lands
\* in the catch
executeTransferDone(f, txHash, callback) ==
    Only({
        IF n.threw
        THEN TransferFailed(AnError(CallbackError), f.calls, callback, n.callbacks)
        ELSE [done |-> TRUE,
              result |-> [ret |-> TRUE, threw |-> FALSE, calls |-> f.calls,
                          callbacks |-> n.callbacks]]
        : n \in {Notify(callback, "success",
                        "Successfully transferred " \o StringOf(f.content.amount)
                            \o " tokens to " \o f.content.recipient.v
                            \o "\nTransaction: " \o txHash,
                        [success |-> TRUE, signature |-> txHash,
                         amount |-> f.content.amount,
                         recipient |-> f.content.recipient.v])}})

\* The handler of SEND_COSMOS resumed with the answer to what it awaited at
\* f.pc: it runs to its next await or to its end.  runtime and callback are
\* what it was called with, reg the registry as it is now.
executeTransferResume(f, runtime, reg, callback, answer) ==
    CASE f.pc \in {"composeState", "updateRecentMessageState"} ->
            IF answer.throws THEN ExecuteTransferRejects(f.calls)
            ELSE [done |-> FALSE, frame |-> [f EXCEPT !.pc = "generateObject"]]
      [] f.pc = "generateObject" ->
            IF answer.throws THEN ExecuteTransferRejects(f.calls)
            ELSE executeTransferExtracted(f, runtime, reg, answer.content, callback)
      [] f.pc = "GET /status" ->
            IF canGetStatus(answer)
            THEN [done |-> FALSE,
                  frame |-> transferTokensWithRpc(f, runtime, reg, Head(f.candidates))]
            ELSE IF Tail(f.candidates) = <<>>
            THEN TransferFailed(AnError("No working RPC endpoint found for '"
                                            \o f.chainName \o "'"), f.calls, callback, <<>>)
            ELSE [done |-> FALSE, frame |-> AskStatus(f, Tail(f.candidates))]
      [] f.pc \in ConnectRequests ->
            Only({
                CASE c.state = "failed" -> TransferFailed(c, f.calls, callback, <<>>)
                  [] c.state = "awaiting" ->
                        [done |-> FALSE,
                         frame |-> [f EXCEPT !.pc = c.pc,
                                             !.calls = Called(@, <<[call |-> c.pc]>>)]]
                  [] OTHER -> transferTokensSigned(f, c.signerAddress, callback)
                : c \in {connectWalletResume(f.pc, answer)}})
      [] f.pc = "simulate" ->
            IF answer.throws
            THEN TransferFailed(AnError(answer.error), f.calls, callback, <<>>)
            ELSE [done |-> FALSE, frame |-> transferTokensSimulated(f, answer.gas)]
      [] OTHER ->
            \* f.pc = "signAndBroadcast"
            IF answer.throws
            THEN TransferFailed(AnError(answer.error), f.calls, callback, <<>>)
            ELSE executeTransferDone(f, answer.transactionHash, callback)

---------------------------------------------------------------------------
(* Transfer requests: the settings, the extracted content, the chain's answers *)

CustomRpc == "https://rpc.osmosis.zone/"

RegistryRpcs == {"https://rpc.osmosis.zone", "https://rpc.cosmos.network"}

TransferRuntimes ==
    [COSMOS_MNEMONIC : {Undefined, "unfold client turtle"},
     COSMOS_CHAIN_NAME : {Undefined, "osmosis", "nochain"},
     COSMOS_RPC_URL : {Undefined, CustomRpc},
     COSMOS_COINGECKO_ID : {Undefined},
     COSMOS_CHAIN_DENOM : {Undefined, "uenvdenom"},
     COSMOS_CHAIN_DECIMALS : {Undefined},
     COSMOS_BECH32_PREFIX : {"osmo"},
     COSMOS_DENOM : {Undefined, "uolddenom"},
     COSMOS_DECIMALS : {Undefined, "2"}]

\* what the language model extracted from the conversation
TransferContents ==
    [tokenDenom : {Str("uosmo"), JsNull},
     recipient : {Str("osmo1abc"), Str("juno1abc"), JsNull},
     amount : {Str("1.5"), Num(2), Num(0), JsNull},
     memo : {Str("rent"), JsUndef}]

\* the callback both handlers are called with: none, one that returns, one
\* that throws on the success message, one that throws on the error message too
TransferCallbacks ==
    {NoCallback, ReturningCallback,
     [present |-> TRUE, throwsOn |-> {"success"}],
     [present |-> TRUE, throwsOn |-> {"success", "failure"}]}

\* What a request of a transfer handler can be answered: the language model
\* answers the content of the request at hand or fails, the signer has an
\* account or none, and the chain answers as AnswersTo has it
TransferAnswers(request) ==
    CASE request = "generateObject" ->
            {Rejected("no object"), [throws |-> FALSE, content |-> req.content]}
      [] request = "getAccounts" ->
            {[throws |-> FALSE, accounts |-> a] : a \in {<<>>, <<SignerAddress>>}}
      [] OTHER -> AnswersTo(request)

\* what a handler in flight waits for: the state of the conversation, the
\* /status of a URL, the broadcast of the transaction, or the request at f.pc
RequestOf(f) ==
    CASE f.pc \in {"composeState", "updateRecentMessageState"} -> "state"
      [] f.pc = "GET /status" -> "GET " \o StatusUrl(Head(f.candidates))
      [] f.pc \in {"sendTokens", "signAndBroadcast"} -> "broadcast"
      [] OTHER -> f.pc

\* the answers a handler has heard once `answer` answers what f waits for
Hears(f, answer) == f.heard \cup {[request |-> RequestOf(f), answer |-> answer]}

InitTransfer ==
    /\ chains = InitialChains
    /\ wp = NoInstance
    /\ teeWp = NoInstance
    /\ now = 0
    /\ req \in [runtime : TransferRuntimes, content : TransferContents,
                callback : TransferCallbacks]
    /\ out = NoOut
    /\ last = NoOp
    /\ pending = NoneInFlight

\* The agent runs COSMOS_SEND_TOKEN on the request, with or without a state
\* (each handler is run once on a request): it is in flight from its first
\* await on
Handler ==
    /\ out.new = NoOp
    /\ \A f \in InFlight : f.op # "COSMOS_SEND_TOKEN"
    /\ \E hasState \in BOOLEAN :
          pending' = Launched([heard |-> {}] @@ handlerBegin(hasState))
    /\ last' = NoOp
    /\ UNCHANGED <<chains, wp, teeWp, now, req, out>>

\* what the COSMOS_SEND_TOKEN in flight awaits is answered: it goes on to
\* its next await, or returns, and out.new is what it did and was answered
HandlerResumes ==
    \E frame \in InFlight :
        /\ frame.op = "COSMOS_SEND_TOKEN"
        /\ \E answer \in TransferAnswers(frame.pc) :
              \E p \in {handlerResume(frame, req.runtime, chains, req.callback,
                                      answer)} :
                  /\ chains' = p.chains
                  /\ IF p.done
                     THEN /\ out' = [out EXCEPT !.new = [op |-> frame.op,
                                                         result |-> p.result,
                                                         heard |-> Hears(frame, answer)]]
                          /\ pending' = Landed(frame)
                     ELSE /\ out' = out
                          /\ pending' = Moved(frame, [heard |-> Hears(frame, answer)]
                                                        @@ p.frame)
        /\ last' = NoOp
        /\ UNCHANGED <<wp, teeWp, now, req>>

\* the agent runs SEND_COSMOS on the request and its callback, with or
\* without a state
ExecuteTransfer ==
    /\ out.old = NoOp
    /\ \A f \in InFlight : f.op # "SEND_COSMOS"
    /\ \E hasState \in BOOLEAN :
          pending' = Launched([heard |-> {}] @@ executeTransferBegin(hasState))
    /\ last' = NoOp
    /\ UNCHANGED <<chains, wp, teeWp, now, req, out>>

\* what the SEND_COSMOS in flight awaits is answered
ExecuteTransferResumes ==
    \E frame \in InFlight :
        /\ frame.op = "SEND_COSMOS"
        /\ \E answer \in TransferAnswers(frame.pc) :
              \E p \in {executeTransferResume(frame, req.runtime, chains,
                                               req.callback, answer)} :
                  IF p.done
                  THEN /\ out' = [out EXCEPT !.old = [op |-> frame.op,
                                                      result |-> p.result,
                                                      heard |-> Hears(frame, answer)]]
                       /\ pending' = Landed(frame)
                  ELSE /\ out' = out
                       /\ pending' = Moved(frame, [heard |-> Hears(frame, answer)]
                                                     @@ p.frame)
        /\ last' = NoOp
        /\ UNCHANGED <<chains, wp, teeWp, now, req>>

NextTransfer ==
    \/ Handler
    \/ HandlerResumes
    \/ ExecuteTransfer
    \/ ExecuteTransferResumes

SpecTransfer == InitTransfer /\ [][NextTransfer]_vars

\* COSMOS_SEND_TOKEN alone, with every behaviour of the callback
HandlerRuntimes ==
    [COSMOS_MNEMONIC : {Undefined, "unfold client turtle"},
     COSMOS_CHAIN_NAME : {Undefined, "osmosis", "nochain"},
     COSMOS_RPC_URL : {Undefined, CustomRpc},
     COSMOS_COINGECKO_ID : {Undefined},
     COSMOS_CHAIN_DENOM : {"uenvdenom"},
     COSMOS_CHAIN_DECIMALS : {Undefined},
     COSMOS_BECH32_PREFIX : {"osmo"},
     COSMOS_DENOM : {Undefined},
     COSMOS_DECIMALS : {Undefined}]

HandlerContents ==
    [tokenDenom : {Str("uosmo"), JsNull},
     recipient : {Str("osmo1abc"), Str("cosmos1abc"), Str("juno1abc"), Str(""), JsNull},
     amount : {Str("1.5"), Str(""), Num(2), Num(0), JsNull},
     memo : {Str("rent"), Num(5), JsUndef, JsNull}]

Callbacks ==
    {NoCallback} \cup
    [present : {TRUE},
     throwsOn : {{}, {"success"}, {"refusal"}, {"success", "failure"}}]

InitHandler ==
    /\ chains = InitialChains
    /\ wp = NoInstance
    /\ teeWp = NoInstance
    /\ now = 0
    /\ req \in [runtime : HandlerRuntimes, content : HandlerContents,
                callback : Callbacks]
    /\ out = NoOut
    /\ last = NoOp
    /\ pending = NoneInFlight

\* COSMOS_SEND_TOKEN runs while another caller builds the chain info
NextHandler ==
    \/ Handler
    \/ HandlerResumes
    \/ BuildChainInfo

SpecHandler == InitHandler /\ [][NextHandler]_vars

---------------------------------------------------------------------------
(* Keys: DeriveKeyProvider of plugin-cosmos-tee and getCosmosWalletKey *)

\* the members of enum TEEMode
TEEModeOFF == "OFF"

TEEModes == {"LOCAL", "DOCKER", "PRODUCTION"}

\* new DeriveKeyProvider(teeMode): the endpoint it connects to, or the error
NewDeriveKeyProvider(teeMode) ==
    CASE teeMode = "LOCAL" ->
            [ok |-> TRUE, teeMode |-> teeMode, endpoint |-> "http://localhost:8090",
             calls |-> <<"new TappdClient", "new RemoteAttestationProvider">>]
      [] teeMode = "DOCKER" ->
            [ok |-> TRUE, teeMode |-> teeMode,
             endpoint |-> "http://host.docker.internal:8090",
             calls |-> <<"new TappdClient", "new RemoteAttestationProvider">>]
      [] teeMode = "PRODUCTION" ->
            [ok |-> TRUE, teeMode |-> teeMode, endpoint |-> Undefined,
             calls |-> <<"new TappdClient", "new RemoteAttestationProvider">>]
      [] OTHER ->
            [ok |-> FALSE, calls |-> <<>>,
             error |-> "Invalid TEE_MODE: " \o Template(teeMode)
                          \o ". Must be one of: LOCAL, DOCKER, PRODUCTION"]

\* Bytes are sequences of numbers 0..255.

HexChars == "0123456789abcdef"

\* Buffer.from(bytes).toString("hex")
RECURSIVE ToHex(_)
ToHex(bytes) ==
    IF bytes = <<>> THEN ""
    ELSE SubSeq(HexChars, (Head(bytes) \div 16) + 1, (Head(bytes) \div 16) + 1)
            \o SubSeq(HexChars, (Head(bytes) % 16) + 1, (Head(bytes) % 16) + 1)
            \o ToHex(Tail(bytes))

HexValue(c) == (CHOOSE i \in 1..16 : SubSeq(HexChars, i, i) = c) - 1

\* Uint8Array.from(Buffer.from(text, "hex")), text of lower-case hex digits
FromHex(text) ==
    [j \in 1..(Len(text) \div 2) |->
        HexValue(SubSeq(text, 2 * j - 1, 2 * j - 1)) * 16
            + HexValue(SubSeq(text, 2 * j, 2 * j))]

Base64Chars == "ABCDEFGHIJKLMNOPQRSTUVWXYZabcdefghijklmnopqrstuvwxyz0123456789+/"

IsBase64Char(c) == \E i \in 1..64 : SubSeq(Base64Chars, i, i) = c

Base64Value(c) == (CHOOSE i \in 1..64 : SubSeq(Base64Chars, i, i) = c) - 1

\* the 6-bit values of the characters of text before the padding
RECURSIVE Sextets(_)
Sextets(text) ==
    IF text = "" \/ ~IsBase64Char(SubSeq(text, 1, 1)) THEN <<>>
    ELSE <<Base64Value(SubSeq(text, 1, 1))>> \o Sextets(SubSeq(text, 2, Len(text)))

\* 2^n
RECURSIVE Pow2(_)
Pow2(n) == IF n = 0 THEN 1 ELSE 2 * Pow2(n - 1)

\* Uint8Array.from(Buffer.from(text, "base64")), text of base64 characters
\* and padding: byte j is bits 8j..8j+7 of the sextets put end to end
FromBase64(text) ==
    Only({
        [j \in 1..((Len(six) * 6) \div 8) |->
            LET k == (8 * (j - 1)) \div 6
                off == (8 * (j - 1)) % 6
            IN  ((six[k + 1] * 64 + six[k + 2]) \div Pow2(4 - off)) % 256]
        : six \in {Sextets(text)}})

\* the length secp256k1 demands of a private key
PrivateKeyLength == 32

\* what secp256k1.publicKeyCreate throws on a key of another length
BadKeyLength == "Expected private key to be an Uint8Array with length 32"

\* secp256k1.publicKeyCreate accepts privateKey: it has 32 bytes (and is a
\* scalar of the curve, as every 32-byte key drawn here is)
ValidPrivateKey(privateKey) == Len(privateKey) = PrivateKeyLength

\* secp256k1.publicKeyCreate(privateKey, compressed): the point of the key,
\* in 33 bytes when compressed and in 65 when not
PublicKeyOf(privateKey, compressed) ==
    [publicKeyOf |-> privateKey, compressed |-> compressed]

\* Secp256k1.compressPubkey(publicKey)
compressPubkey(publicKey) == [publicKey EXCEPT !.compressed = TRUE]

\* generateCosmosAddress(publicKey, prefix): bech32 of the hash of the key
AddressOf(publicKey, prefix) == [prefix |-> prefix, hashOf |-> publicKey]

\* runtime.agentId
AgentId == "agent-1"
\* a ?? b
Nullish(a, b) == IF a = Undefined THEN b ELSE a

\* getCosmosWalletKey with TEE mode off, as the file's second version has it
WalletKeyFromSettings(runtime, requirePrivateKey) ==
    IF requirePrivateKey
    THEN LET privateKeyString == Nullish(getSetting(runtime, "COSMOS_PRIVATE_KEY"),
                                         getSetting(runtime, "WALLET_PRIVATE_KEY"))
         IN  IF ~Truthy(privateKeyString)
             THEN [ok |-> FALSE, error |-> "Private key not found in settings",
                   calls |-> <<>>]
             ELSE Only({
                 IF ~ValidPrivateKey(privateKey)
                 THEN [ok |-> FALSE, error |-> "Invalid private key format",
                       calls |-> <<>>]
                 ELSE [ok |-> TRUE, calls |-> <<>>,
                       result |-> [privateKey |-> privateKey,
                                   publicKey |-> PublicKeyOf(privateKey, TRUE),
                                   address |-> AddressOf(PublicKeyOf(privateKey, TRUE),
                                                         "cosmos")]]
                 : privateKey \in {FromBase64(privateKeyString)}})
    ELSE LET publicKeyString == Nullish(getSetting(runtime, "COSMOS_PUBLIC_KEY"),
                                        getSetting(runtime, "WALLET_PUBLIC_KEY"))
         IN  IF ~Truthy(publicKeyString)
             THEN [ok |-> FALSE, error |-> "Public key not found in settings",
                   calls |-> <<>>]
             ELSE Only({
                 [ok |-> TRUE, calls |-> <<>>,
                  result |-> [publicKey |-> [bytes |-> publicKey],
                              address |-> AddressOf([bytes |-> publicKey], "cosmos")]]
                 : publicKey \in {FromBase64(publicKeyString)}})

\* what getCosmosWalletKey returns in TEE mode of the key pair derived
TeeWalletKey(f) ==
    LET privateKey == FromHex(ToHex(f.privateKey))
        publicKey == PublicKeyOf(f.privateKey, FALSE)
        address == AddressOf(compressPubkey(publicKey), "osmo")
    IN  IF f.requirePrivateKey
        THEN [privateKey |-> privateKey, publicKey |-> publicKey, address |-> address]
        ELSE [publicKey |-> publicKey, address |-> address]

\* getCosmosWalletKey throws
KeyFailed(error, calls) ==
    [done |-> TRUE, result |-> [ok |-> FALSE, error |-> error, calls |-> calls]]

\* The TEE branch that both versions of getCosmosWalletKey share, up to its
\* first await: the salt is checked, the DeriveKeyProvider is constructed
\* (it makes its two clients) and deriveSecp256k1KeypairForCosmos("/", salt,
\* agentId) asks the TEE to derive the key
walletKeyInTeeBegin(op, runtime, requirePrivateKey, teeMode) ==
    LET walletSecretSalt == getSetting(runtime, "WALLET_SECRET_SALT")
        deriveKeyProvider == NewDeriveKeyProvider(teeMode)
    IN  IF ~Truthy(walletSecretSalt)
        THEN KeyFailed("WALLET_SECRET_SALT required when TEE_MODE is enabled", <<>>)
        ELSE IF ~deriveKeyProvider.ok
        THEN KeyFailed(deriveKeyProvider.error, <<>>)
        ELSE [done |-> FALSE,
              frame |-> [op |-> op, pc |-> "deriveKey",
                         requirePrivateKey |-> requirePrivateKey,
                         agentId |-> AgentId, privateKey |-> <<>>,
                         calls |-> Called(deriveKeyProvider.calls, <<"deriveKey">>)]]

\* getCosmosWalletKey(runtime, requirePrivateKey), the second version of
\* keypairUtils.ts, up to its first await: with TEE mode off it awaits nothing
getCosmosWalletKeyBegin(runtime, requirePrivateKey) ==
    LET setMode == getSetting(runtime, "TEE_MODE")
        teeMode == IF Truthy(setMode) THEN setMode ELSE TEEModeOFF
    IN  IF teeMode # TEEModeOFF
        THEN walletKeyInTeeBegin("getCosmosWalletKey", runtime, requirePrivateKey,
                                 teeMode)
        ELSE [done |-> TRUE,
              result |-> WalletKeyFromSettings(runtime, requirePrivateKey)]

\* getCosmosWalletKey(runtime, requirePrivateKey), the first version of
\* keypairUtils.ts, up to its first await: with TEE mode off it returns {}
getCosmosWalletKeyFirstBegin(runtime, requirePrivateKey) ==
    LET setMode == getSetting(runtime, "TEE_MODE")
        teeMode == IF Truthy(setMode) THEN setMode ELSE TEEModeOFF
    IN  IF teeMode # TEEModeOFF
        THEN walletKeyInTeeBegin("getCosmosWalletKey (first)", runtime,
                                 requirePrivateKey, teeMode)
        ELSE [done |-> TRUE,
              result |-> [ok |-> TRUE, result |-> EmptyObject, calls |-> <<>>]]

\* getCosmosWalletKey in TEE mode resumed with the answer to what
\* deriveSecp256k1KeypairForCosmos awaited at f.pc: the derived key (its
\* first 32 bytes are the private key, of which secp256k1 makes the public
\* key), the compressed public key, the attestation quote
walletKeyInTeeResume(f, answer) ==
    CASE f.pc = "deriveKey" ->
            IF answer.throws THEN KeyFailed(answer.error, f.calls)
            ELSE LET privateKey == SubSeq(answer.key, 1,
                                          IF Len(answer.key) < 32
                                          THEN Len(answer.key) ELSE 32)
                 IN  IF ~ValidPrivateKey(privateKey)
                     THEN KeyFailed(BadKeyLength, f.calls)
                     ELSE [done |-> FALSE,
                           frame |-> [f EXCEPT !.pc = "compressPubkey",
                                               !.privateKey = privateKey]]
      [] f.pc = "compressPubkey" ->
            [done |-> FALSE,
             frame |-> [f EXCEPT !.pc = "generateAttestation",
                                 !.calls = Called(@, <<"generateAttestation">>)]]
      [] OTHER ->
            \* f.pc = "generateAttestation"
            IF answer.throws THEN KeyFailed(answer.error, f.calls)
            ELSE [done |-> TRUE,
                  result |-> [ok |-> TRUE, calls |-> f.calls,
                              result |-> TeeWalletKey(f),
                              attestation |->
                                 [reportdata |->
                                    [agentId |-> f.agentId,
                                     publicKey |-> [hex |-> PublicKeyOf(f.privateKey,
                                                                       FALSE)]]]]]

\* base64 of the bytes 1, 2, ... 32
KeyOf32Bytes == "AQIDBAUGBwgJCgsMDQ4PEBESExQVFhcYGRobHB0eHyA="

KeyRuntimes ==
    [TEE_MODE : {Undefined, "OFF", "LOCAL", "DOCKER", "PRODUCTION", "SIMULATOR"},
     WALLET_SECRET_SALT : {Undefined, "salt"},
     COSMOS_PRIVATE_KEY : {Undefined, "", KeyOf32Bytes, "cHJpdmF0ZWtleQ=="},
     WALLET_PRIVATE_KEY : {Undefined, KeyOf32Bytes},
     COSMOS_PUBLIC_KEY : {Undefined, "cHVibGlja2V5"},
     WALLET_PUBLIC_KEY : {Undefined, "d2FsbGV0a2V5"}]

\* what the TEE answers: to deriveKey a failure, or a key of 40 or of 2
\* bytes; to the attestation request a failure or a quote
TeeAnswers(request) ==
    CASE request = "deriveKey" ->
            {Rejected("deriveKey failed"),
             [throws |-> FALSE, key |-> [i \in 1..40 |-> i]],
             [throws |-> FALSE, key |-> <<94, 237>>]}
      [] request = "generateAttestation" -> {Rejected("attestation failed"), Served}
      [] OTHER -> {Served}

InitKeys ==
    /\ chains = InitialChains
    /\ wp = NoInstance
    /\ teeWp = NoInstance
    /\ now = 0
    /\ req \in [runtime : KeyRuntimes, requirePrivateKey : BOOLEAN]
    /\ out = NoOut
    /\ last = NoOp
    /\ pending = NoneInFlight

\* getCosmosWalletKey has returned or thrown
KeyReturns(op, result, requirePrivateKey) ==
    [op |-> op, result |-> result, requirePrivateKey |-> requirePrivateKey]

\* a call of getCosmosWalletKey (the second version)
GetCosmosWalletKey ==
    /\ CanStart
    /\ \E p \in {getCosmosWalletKeyBegin(req.runtime, req.requirePrivateKey)} :
          IF p.done
          THEN /\ last' = KeyReturns("getCosmosWalletKey", p.result,
                                     req.requirePrivateKey)
               /\ pending' = pending
          ELSE /\ last' = NoOp
               /\ pending' = Launched(p.frame)
    /\ UNCHANGED <<chains, wp, teeWp, now, req, out>>

\* a call of getCosmosWalletKey (the first version)
GetCosmosWalletKeyFirst ==
    /\ CanStart
    /\ \E p \in {getCosmosWalletKeyFirstBegin(req.runtime, req.requirePrivateKey)} :
          IF p.done
          THEN /\ last' = KeyReturns("getCosmosWalletKey (first)", p.result,
                                     req.requirePrivateKey)
               /\ pending' = pending
          ELSE /\ last' = NoOp
               /\ pending' = Launched(p.frame)
    /\ UNCHANGED <<chains, wp, teeWp, now, req, out>>

\* the TEE (or the library that compresses the key) answers a
\* getCosmosWalletKey in flight, of either version
GetCosmosWalletKeyResumes ==
    \E frame \in InFlight :
        /\ \E answer \in TeeAnswers(frame.pc) :
              \E p \in {walletKeyInTeeResume(frame, answer)} :
                  IF p.done
                  THEN /\ last' = KeyReturns(frame.op, p.result,
                                             frame.requirePrivateKey)
                       /\ pending' = Landed(frame)
                  ELSE /\ last' = NoOp
                       /\ pending' = Moved(frame, p.frame)
        /\ UNCHANGED <<chains, wp, teeWp, now, req, out>>

\* new DeriveKeyProvider(teeMode), and new DeriveKeyProvider() as the README has it
ConstructDeriveKeyProvider ==
    /\ \E teeMode \in TEEModes \cup {Undefined, TEEModeOFF} :
          last' = [op |-> "new DeriveKeyProvider", teeMode |-> teeMode,
                   result |-> NewDeriveKeyProvider(teeMode)]
    /\ UNCHANGED <<chains, wp, teeWp, now, req, out, pending>>

NextKeys ==
    \/ GetCosmosWalletKey
    \/ GetCosmosWalletKeyFirst
    \/ GetCosmosWalletKeyResumes
    \/ ConstructDeriveKeyProvider

SpecKeys == InitKeys /\ [][NextKeys]_vars

---------------------------------------------------------------------------
(* class WalletProvider of plugin-cosmos-tee *)

\* PROVIDER_CONFIG
CosmosApi == "https://api.cosmos.network"

MaxRetries == 3

\* RETRY_DELAY, in milliseconds
RetryDelay == 2000

TokenDenom == "uatom"

ProviderDecimals == 6

\* new WalletProvider(rpcEndpoint, walletAddress)
NewTeeWalletProvider(rpcEndpoint, walletAddress) ==
    [rpcEndpoint |-> rpcEndpoint, walletAddress |-> walletAddress,
     cache |-> EmptyCache]

\* the portfolio fetchPortfolioValue builds from a balance and a price
TeePortfolio(balanceAmount, price) ==
    LET amount == ShiftedBy(balanceAmount, ProviderDecimals)
        valueUsd == MultipliedBy(amount, price)
    IN  [totalUsd |-> ToFixed2(valueUsd),
         items |-> <<[name |-> "Cosmos", denom |-> TokenDenom,
                      decimals |-> Num(ProviderDecimals),
                      balance |-> balanceAmount,
                      uiAmount |-> ToFixed(amount, 6),
                      priceUsd |-> ToFixed2(price),
                      valueUsd |-> ToFixed2(valueUsd)]>>]

\* fetchPortfolioValue throws
TeeFailed(f, self, error) ==
    [done |-> TRUE, self |-> self,
     result |-> [ok |-> FALSE, error |-> error, calls |-> f.calls,
                 sleeps |-> f.sleeps]]

\* WalletProvider.fetchPortfolioValue(runtime) of plugin-cosmos-tee called
\* at time t, up to its first await: the cached portfolio, or the frame of
\* the call, which connects to the chain
teeFetchPortfolioValueBegin(self, t) ==
    LET cacheKey == "portfolio-" \o self.walletAddress
        cachedValue == CacheGet(self.cache, cacheKey, t)
    IN  IF cachedValue # JsUndef
        THEN [done |-> TRUE, self |-> self,
              result |-> [ok |-> TRUE, portfolio |-> cachedValue, calls |-> <<>>,
                          sleeps |-> <<>>]]
        ELSE [done |-> FALSE, self |-> self,
              frame |-> [op |-> "fetchPortfolioValue (tee)",
                         pc |-> "StargateClient.connect", key |-> cacheKey,
                         calls |-> Called(<<>>, <<"connect">>), sleeps |-> <<>>,
                         balance |-> "0", attempt |-> 0, status |-> 0,
                         lastError |-> "", wakeAt |-> 0,
                         priceData |-> [price |-> ZeroPrice, denom |-> TokenDenom]]]

\* fetchWithRetry makes attempt i (from 0) of its request
Attempt(f, i) ==
    [f EXCEPT !.pc = "fetch", !.attempt = i, !.calls = Called(@, <<"fetch">>)]

\* the catch of fetchWithRetry at time t: the error is kept; before the
\* last attempt it waits RETRY_DELAY * 2^i milliseconds, and after the last
\* one it throws the last error
AttemptFailed(f, self, error, t) ==
    IF f.attempt < MaxRetries - 1
    THEN Only({
        [done |-> FALSE, self |-> self,
         frame |-> [f EXCEPT !.pc = "setTimeout", !.lastError = error,
                             !.sleeps = Append(@, delay),
                             !.wakeAt = t * 1000 + delay]]
        : delay \in {RetryDelay * Pow2(f.attempt)}})
    ELSE TeeFailed(f, self, error)

\* fetchPrices once it has the price data: a call of fetchPrices returns
\* it, and fetchPortfolioValue goes on when `await this.fetchPrices(runtime)`
\* lets it
Priced(f, self, priceData) ==
    IF f.op = "fetchPrices (tee)"
    THEN [done |-> TRUE, self |-> self,
          result |-> [ok |-> TRUE, priceData |-> priceData, calls |-> f.calls,
                      sleeps |-> f.sleeps]]
    ELSE [done |-> FALSE, self |-> self,
          frame |-> [f EXCEPT !.pc = "fetchPrices", !.priceData = priceData]]

\* WalletProvider.fetchPrices(runtime) of plugin-cosmos-tee called at time
\* t, up to its first await: the cached price data, or the frame of the
\* call, which makes the first attempt of fetchWithRetry
teeFetchPricesBegin(self, t) ==
    LET cachedValue == CacheGet(self.cache, "price", t)
    IN  IF cachedValue # JsUndef
        THEN [done |-> TRUE, self |-> self,
              result |-> [ok |-> TRUE, priceData |-> cachedValue, calls |-> <<>>,
                          sleeps |-> <<>>]]
        ELSE [done |-> FALSE, self |-> self,
              frame |-> Attempt([op |-> "fetchPrices (tee)", pc |-> "fetchPrices",
                                 key |-> "price", calls |-> <<>>, sleeps |-> <<>>,
                                 balance |-> "0", attempt |-> 0, status |-> 0,
                                 lastError |-> "", wakeAt |-> 0,
                                 priceData |-> [price |-> ZeroPrice,
                                                denom |-> TokenDenom]], 0)]

\* fetchPortfolioValue of plugin-cosmos-tee, or a call of fetchPrices,
\* resumed at time t with the answer to what it awaited at f.pc (in
\* fetchPrices and fetchWithRetry too): it runs to its next await or to its
\* end, on the instance as it is now
teeFetchPortfolioValueResume(f, self, answer, t) ==
    CASE f.pc = "StargateClient.connect" ->
            IF answer.throws THEN TeeFailed(f, self, answer.error)
            ELSE [done |-> FALSE, self |-> self,
                  frame |-> [f EXCEPT !.pc = "getBalance",
                                      !.calls = Called(@, <<"getBalance">>)]]
      [] f.pc = "getBalance" ->
            \* the balance, and fetchPrices up to its first await
            IF answer.throws THEN TeeFailed(f, self, answer.error)
            ELSE IF answer.balance = JsNull
            THEN TeeFailed(f, self, "No balance data available")
            ELSE LET g == [f EXCEPT !.balance = answer.balance.amount]
                     cachedValue == CacheGet(self.cache, "price", t)
                 IN  IF cachedValue # JsUndef
                     THEN Priced(g, self, cachedValue)
                     ELSE [done |-> FALSE, self |-> self, frame |-> Attempt(g, 0)]
      [] f.pc = "fetch" ->
            \* fetchWithRetry: the response, whose body is read next
            IF answer.throws THEN AttemptFailed(f, self, answer.error, t)
            ELSE IF ~answer.ok
            THEN [done |-> FALSE, self |-> self,
                  frame |-> [f EXCEPT !.pc = "response.text",
                                      !.status = answer.status]]
            ELSE [done |-> FALSE, self |-> self,
                  frame |-> [f EXCEPT !.pc = "response.json"]]
      [] f.pc = "response.text" ->
            IF answer.throws THEN AttemptFailed(f, self, answer.error, t)
            ELSE AttemptFailed(f, self,
                               "HTTP error! status: " \o NatToString(f.status)
                                   \o ", message: " \o answer.text, t)
      [] f.pc = "response.json" ->
            \* fetchWithRetry returns the data, and fetchPrices caches the price
            IF answer.throws THEN AttemptFailed(f, self, answer.error, t)
            ELSE IF answer.data.price = JsUndef \/ answer.data.price = ZeroPrice
            THEN TeeFailed(f, self, "No price data available")
            ELSE Only({
                Priced(f, [self EXCEPT !.cache = CacheSet(@, "price", priceData, t)],
                       priceData)
                : priceData \in {[price |-> answer.data.price, denom |-> TokenDenom]}})
      [] f.pc = "setTimeout" ->
            [done |-> FALSE, self |-> self, frame |-> Attempt(f, f.attempt + 1)]
      [] OTHER ->
            \* f.pc = "fetchPrices": the portfolio is built and cached
            Only({
                [done |-> TRUE,
                 self |-> [self EXCEPT !.cache = CacheSet(@, f.key, portfolio, t)],
                 result |-> [ok |-> TRUE, portfolio |-> portfolio, calls |-> f.calls,
                             sleeps |-> f.sleeps]]
                : portfolio \in {TeePortfolio(f.balance, f.priceData.price)}})

\* what the chain and the price service answer the TEE provider
TeeProviderAnswers(request) ==
    CASE request = "StargateClient.connect" -> {Rejected("connect failed"), Served}
      [] request = "getBalance" ->
            {Rejected("query failed"),
             [throws |-> FALSE, balance |-> JsNull],
             [throws |-> FALSE, balance |-> [denom |-> TokenDenom, amount |-> "7"]]}
      [] request = "fetch" ->
            {Rejected("network down"),
             [throws |-> FALSE, ok |-> FALSE, status |-> 503],
             [throws |-> FALSE, ok |-> TRUE, status |-> 200]}
      [] request = "response.text" -> {[throws |-> FALSE, text |-> "down"]}
      [] request = "response.json" ->
            {[throws |-> FALSE, data |-> [price |-> [m |-> 9, e |-> 1]]],
             [throws |-> FALSE, data |-> [price |-> JsUndef]]}
      [] OTHER -> {Served}

---------------------------------------------------------------------------
(* Providers that live on: their caches, and the clock *)

\* the address of the wallet the TEE derived
TeeWalletAddress == "cosmos1teewallet"

\* the runtimes an agent that keeps a provider runs with
CacheRuntimes ==
    {TestRuntime,
     [TestRuntime EXCEPT !.COSMOS_RPC_URL = Undefined],
     [TestRuntime EXCEPT !.COSMOS_CHAIN_DECIMALS = "abc"]}

InitCache ==
    /\ chains = InitialChains
    /\ wp = NoInstance
    /\ teeWp = NoInstance
    /\ now = 0
    /\ req \in [runtime : CacheRuntimes, price : {PriceDown, PriceQuoted}]
    /\ out = NoOut
    /\ last = NoOp
    /\ pending = NoneInFlight

\* the agent builds the WalletProvider of plugin-cosmos it will keep (an
\* agent keeps one provider, of one plugin or of the other)
ConstructWalletProvider ==
    /\ ~wp.exists /\ ~teeWp.exists
    /\ \E built \in {buildChainInfo(req.runtime, chains)} :
          /\ built.ok
          /\ wp' = [exists |-> TRUE,
                    self |-> NewWalletProvider(req.runtime.COSMOS_MNEMONIC, built)]
          /\ chains' = built.chains
    /\ last' = [op |-> "new WalletProvider"]
    /\ UNCHANGED <<teeWp, now, req, out, pending>>

\* fetchPortfolioValue, called at time `at` on an instance whose cache was
\* cacheBefore, has returned or thrown
FetchReturns(op, r, at, cacheBefore) ==
    [op |-> op, at |-> at, cacheBefore |-> cacheBefore,
     result |-> [ok |-> r.ok, calls |-> r.calls,
                 value |-> IF r.ok THEN r.portfolio ELSE r.error]]

\* a call of fetchPortfolioValue(runtime) on the provider kept
FetchPortfolioValue ==
    /\ wp.exists
    /\ CanStart
    /\ \E p \in {fetchPortfolioValueBegin(wp.self, req.runtime, chains, now)} :
          /\ chains' = p.chains
          /\ IF p.done
             THEN /\ last' = FetchReturns("fetchPortfolioValue", p.result, now,
                                          wp.self.cache)
                  /\ pending' = pending
             ELSE /\ last' = NoOp
                  /\ pending' = Launched([op |-> "fetchPortfolioValue",
                                          fetch |-> p.fetch, at |-> now,
                                          runtime |-> req.runtime,
                                          cacheBefore |-> wp.self.cache])
    /\ UNCHANGED <<wp, teeWp, now, req, out>>

\* a request that a fetchPortfolioValue in flight awaits is answered
FetchPortfolioValueResumes ==
    \E frame \in InFlight :
        /\ frame.op = "fetchPortfolioValue"
        /\ \E answer \in ProviderAnswers(frame.fetch) :
              \E p \in {fetchPortfolioValueResume(frame.fetch, wp.self, chains,
                                                 answer, now)} :
                  /\ wp' = [wp EXCEPT !.self = p.self]
                  /\ IF p.done
                     THEN /\ last' = FetchReturns(frame.op, p.result, frame.at,
                                                  frame.cacheBefore)
                          /\ pending' = Landed(frame)
                     ELSE /\ last' = NoOp
                          /\ pending' = Moved(frame, [frame EXCEPT !.fetch = p.fetch])
        /\ UNCHANGED <<chains, teeWp, now, req, out>>

\* WalletProvider.connectWallet(runtime) called on the provider kept: it
\* returns at once when the provider is connected, and calls the exported
\* connectWallet(runtime) otherwise
WalletProviderConnectWallet ==
    /\ wp.exists
    /\ CanStart
    /\ IF wp.self.stargateClient /\ Truthy(wp.self.signerAddress)
       THEN /\ last' = [op |-> "WalletProvider.connectWallet", at |-> now,
                        result |-> [ok |-> TRUE, calls |-> <<>>]]
            /\ UNCHANGED <<chains, pending>>
       ELSE \E c \in {connectWalletBegin(req.runtime, chains)} :
               /\ chains' = c.chains
               /\ IF c.state = "failed"
                  THEN /\ last' = [op |-> "WalletProvider.connectWallet", at |-> now,
                                   result |-> [ok |-> FALSE, error |-> c.error,
                                               calls |-> <<>>]]
                       /\ pending' = pending
                  ELSE /\ last' = NoOp
                       /\ pending' = Launched([op |-> "WalletProvider.connectWallet",
                                               pc |-> c.pc, at |-> now,
                                               calls |-> Called(<<>>, <<c.pc>>)])
    /\ UNCHANGED <<wp, teeWp, now, req, out>>

\* a request that a WalletProvider.connectWallet in flight awaits is
\* answered: when connectWallet returns, the provider keeps the client and
\* the address
WalletProviderConnectWalletResumes ==
    \E frame \in InFlight :
        /\ frame.op = "WalletProvider.connectWallet"
        /\ \E answer \in AnswersTo(frame.pc) :
              \E c \in {connectWalletResume(frame.pc, answer)} :
                  CASE c.state = "failed" ->
                          /\ last' = [op |-> frame.op, at |-> frame.at,
                                      result |-> [ok |-> FALSE, error |-> c.error,
                                                  calls |-> frame.calls]]
                          /\ pending' = Landed(frame)
                          /\ wp' = wp
                    [] c.state = "awaiting" ->
                          /\ last' = NoOp
                          /\ pending' = Moved(frame,
                                              [frame EXCEPT !.pc = c.pc,
                                                            !.calls = Called(@, <<c.pc>>)])
                          /\ wp' = wp
                    [] OTHER ->
                          /\ last' = [op |-> frame.op, at |-> frame.at,
                                      result |-> [ok |-> TRUE, calls |-> frame.calls]]
                          /\ pending' = Landed(frame)
                          /\ wp' = [wp EXCEPT !.self.stargateClient = TRUE,
                                              !.self.signerAddress = c.signerAddress]
        /\ UNCHANGED <<chains, teeWp, now, req, out>>

\* the agent builds the WalletProvider of plugin-cosmos-tee it will keep
ConstructTeeWalletProvider ==
    /\ ~wp.exists /\ ~teeWp.exists
    /\ teeWp' = [exists |-> TRUE,
                 self |-> NewTeeWalletProvider(CosmosApi, TeeWalletAddress)]
    /\ last' = [op |-> "new WalletProvider (tee)"]
    /\ UNCHANGED <<chains, wp, now, req, out, pending>>

\* a call of fetchPortfolioValue(runtime) on the TEE provider kept
TeeFetchPortfolioValue ==
    /\ teeWp.exists
    /\ CanStart
    /\ \E p \in {teeFetchPortfolioValueBegin(teeWp.self, now)} :
          IF p.done
          THEN /\ last' = FetchReturns("fetchPortfolioValue (tee)", p.result, now,
                                       teeWp.self.cache)
               /\ pending' = pending
          ELSE /\ last' = NoOp
               /\ pending' = Launched(p.frame @@ [at |-> now,
                                                  cacheBefore |-> teeWp.self.cache])
    /\ UNCHANGED <<chains, wp, teeWp, now, req, out>>

\* What a fetchPortfolioValue of the TEE provider awaits is answered; the
\* timer of fetchWithRetry fires once the clock has passed its delay.
TeeFetchPortfolioValueResumes ==
    \E frame \in InFlight :
        /\ frame.op = "fetchPortfolioValue (tee)"
        /\ frame.pc = "setTimeout" => now * 1000 >= frame.wakeAt
        /\ \E answer \in TeeProviderAnswers(frame.pc) :
              \E p \in {teeFetchPortfolioValueResume(frame, teeWp.self, answer, now)} :
                  /\ teeWp' = [teeWp EXCEPT !.self = p.self]
                  /\ IF p.done
                     THEN /\ last' = FetchReturns(frame.op, p.result, frame.at,
                                                  frame.cacheBefore)
                                        @@ [sleeps |-> p.result.sleeps]
                          /\ pending' = Landed(frame)
                     ELSE /\ last' = NoOp
                          /\ pending' = Moved(frame, p.frame)
        /\ UNCHANGED <<chains, wp, now, req, out>>

\* a call of fetchPrices(runtime) on the TEE provider kept
TeeFetchPrices ==
    /\ teeWp.exists
    /\ CanStart
    /\ \E p \in {teeFetchPricesBegin(teeWp.self, now)} :
          IF p.done
          THEN /\ last' = [op |-> "fetchPrices (tee)", at |-> now,
                           result |-> [ok |-> TRUE, calls |-> <<>>,
                                       value |-> p.result.priceData]]
               /\ pending' = pending
          ELSE /\ last' = NoOp
               /\ pending' = Launched(p.frame @@ [at |-> now,
                                                  cacheBefore |-> teeWp.self.cache])
    /\ UNCHANGED <<chains, wp, teeWp, now, req, out>>

\* What a fetchPrices of the TEE provider awaits is answered; the timer of
\* fetchWithRetry fires once the clock has passed its delay.
TeeFetchPricesResumes ==
    \E frame \in InFlight :
        /\ frame.op = "fetchPrices (tee)"
        /\ frame.pc = "setTimeout" => now * 1000 >= frame.wakeAt
        /\ \E answer \in TeeProviderAnswers(frame.pc) :
              \E p \in {teeFetchPortfolioValueResume(frame, teeWp.self, answer, now)} :
                  /\ teeWp' = [teeWp EXCEPT !.self = p.self]
                  /\ IF p.done
                     THEN /\ last' = [op |-> frame.op, at |-> frame.at,
                                      sleeps |-> p.result.sleeps,
                                      result |-> [ok |-> p.result.ok,
                                                  calls |-> p.result.calls,
                                                  value |-> IF p.result.ok
                                                            THEN p.result.priceData
                                                            ELSE p.result.error]]
                          /\ pending' = Landed(frame)
                     ELSE /\ last' = NoOp
                          /\ pending' = Moved(frame, p.frame)
        /\ UNCHANGED <<chains, wp, now, req, out>>

\* time passes
Tick ==
    /\ now < MaxTime * TickSeconds
    /\ now' = now + TickSeconds
    /\ last' = NoOp
    /\ UNCHANGED <<chains, wp, teeWp, req, out, pending>>

NextCache ==
    \/ ConstructWalletProvider
    \/ FetchPortfolioValue
    \/ FetchPortfolioValueResumes
    \/ WalletProviderConnectWallet
    \/ WalletProviderConnectWalletResumes
    \/ ConstructTeeWalletProvider
    \/ TeeFetchPortfolioValue
    \/ TeeFetchPortfolioValueResumes
    \/ TeeFetchPrices
    \/ TeeFetchPricesResumes
    \/ Tick

SpecCache == InitCache /\ [][NextCache]_vars

---------------------------------------------------------------------------
(* Claims about the wallet provider, checked under SpecProvider *)

IsGet == last.op = "walletProvider.get"

IsBuild == last.op = "buildChainInfo"

\* the settings the call that returned was made with
MnemonicSet == last.runtime.COSMOS_MNEMONIC \notin {Undefined, ""}

RpcSet == last.runtime.COSMOS_RPC_URL \notin {Undefined, ""}

\* C1: whenever COSMOS_MNEMONIC is not set, whatever the other settings,
\* walletProvider.get returns null, builds no WalletProvider and makes no
\* call to a chain.
C1_NullWithoutMnemonic ==
    (IsGet /\ ~MnemonicSet) =>
        /\ last.result.ret = Null
        /\ last.result.instances = 0
        /\ last.result.calls = <<>>

\* walletProvider.get has returned null for a runtime with no mnemonic whose
\* other settings (chain, RPC, denom) are all set
C1_Witness ==
    /\ IsGet /\ last.runtime.COSMOS_MNEMONIC = Undefined
    /\ RpcSet /\ last.runtime.COSMOS_CHAIN_NAME = "osmosis"
    /\ last.runtime.COSMOS_CHAIN_DENOM # Undefined
    /\ last.result.ret = Null

\* what buildChainInfo returns from settings alone when COSMOS_RPC_URL is set
BuiltFromSettings(r) ==
    /\ r.ok /\ ~r.usedRegistry /\ r.chains = chains
    /\ r.info.chain_name = last.runtime.COSMOS_CHAIN_NAME
    /\ r.info.apis_rpc = <<last.runtime.COSMOS_RPC_URL>>
    /\ r.info.denom = last.runtime.COSMOS_CHAIN_DENOM
    /\ Len(r.info.fee_tokens) = 1
    /\ r.info.fee_tokens[1].denom = last.runtime.COSMOS_CHAIN_DENOM
    /\ r.info.decimals =
          IF last.runtime.COSMOS_CHAIN_DECIMALS \in {Undefined, ""} THEN Num(6)
          ELSE NumberOf(last.runtime.COSMOS_CHAIN_DECIMALS)

\* walletProvider.get produced a portfolio
GotPortfolio == IsGet /\ last.result.ret # Null /\ last.result.fetched.ok

\* C3 as stated: with COSMOS_RPC_URL set (and a mnemonic), buildChainInfo
\* builds the chain info from the settings alone, and the symbol of the
\* portfolio's token is COSMOS_CHAIN_DENOM in upper case.
C3_Original ==
    /\ (IsBuild /\ MnemonicSet /\ RpcSet) => BuiltFromSettings(last.result)
    /\ (GotPortfolio /\ RpcSet) =>
          last.result.fetched.portfolio.tokens[1].symbol
              = ToUpperCase(last.runtime.COSMOS_CHAIN_DENOM)

\* C3 amended: as stated, but the symbol is COSMOS_CHAIN_DENOM in upper case
\* only when that setting is set; when it is unset the chain info carries no
\* denom and the portfolio's symbol is "UOSMO".
C3_SettingsChainInfo ==
    /\ (IsBuild /\ MnemonicSet /\ RpcSet) => BuiltFromSettings(last.result)
    /\ (GotPortfolio /\ RpcSet) =>
          last.result.fetched.portfolio.tokens[1].symbol
              = IF last.runtime.COSMOS_CHAIN_DENOM = Undefined THEN "UOSMO"
                ELSE ToUpperCase(last.runtime.COSMOS_CHAIN_DENOM)

\* the first test of wallet.test.ts: a chain name the registry does not need
\* to know, RPC, denom "uenvdenom" and decimals "4" from the settings, and a
\* portfolio whose symbol is "UENVDENOM"
C3_Witness ==
    /\ GotPortfolio /\ RpcSet
    /\ last.runtime.COSMOS_CHAIN_NAME = "nochain"
    /\ last.runtime.COSMOS_CHAIN_DENOM = "uenvdenom"
    /\ last.result.chainInfo.decimals = Num(4)
    /\ last.result.fetched.portfolio.tokens[1].symbol = "UENVDENOM"

\* C4: with COSMOS_RPC_URL unset (and a mnemonic), buildChainInfo returns the
\* registry entry named COSMOS_CHAIN_NAME, with denom the first fee token's
\* denom ("uosmo" when it has none) and decimals 6, and throws "Chain
\* '<name>' not found in chain-registry" when the registry has no such entry.
C4_RegistryFallback ==
    (IsBuild /\ MnemonicSet /\ ~RpcSet) =>
        LET name == last.runtime.COSMOS_CHAIN_NAME
            r == last.result
        IN  IF name \in DOMAIN InitialChains
            THEN /\ r.ok /\ r.usedRegistry
                 /\ r.info = chains[name]
                 /\ r.info.chain_name = name
                 /\ r.info.apis_rpc = InitialChains[name].apis_rpc
                 /\ r.info.fee_tokens = InitialChains[name].fee_tokens
                 /\ r.info.denom =
                        IF Len(r.info.fee_tokens) = 0 THEN "uosmo"
                        ELSE r.info.fee_tokens[1].denom
                 /\ r.info.decimals = Num(6)
            ELSE /\ ~r.ok
                 /\ r.error = "Chain '" \o Template(name) \o "' not found in chain-registry"

\* buildChainInfo has fallen back to the registry for a chain that lists no
\* fee token, and answered with denom "uosmo"
C4_Witness ==
    /\ IsBuild /\ MnemonicSet /\ ~RpcSet
    /\ last.runtime.COSMOS_CHAIN_NAME = "localnet"
    /\ last.result.ok /\ last.result.info.denom = "uosmo"

\* C9 as stated: with a mnemonic, no COSMOS_CHAIN_NAME and no COSMOS_RPC_URL,
\* walletProvider.get reports the portfolio of chain osmosis.
C9_DefaultsToOsmosis ==
    (IsGet /\ MnemonicSet /\ ~RpcSet /\ last.runtime.COSMOS_CHAIN_NAME = Undefined) =>
        /\ last.result.ret # Null
        /\ last.result.chainInfo.chain_name = "osmosis"

\* a walletProvider.get that follows, with the same settings and less than
\* StdTTL seconds later, a walletProvider.get that returned a portfolio
SecondGet ==
    /\ IsGet /\ last.previous.op = "walletProvider.get"
    /\ last.at - last.previous.at < StdTTL
    /\ last.previous.ret \notin {Null, UnableToFetch}

\* C11 as stated: a second walletProvider.get for the same chain, made before
\* the TTL of the first one's portfolio expires, is answered from the cache:
\* it returns the same text and makes no call to the chain.
C11_SecondGetFromCache ==
    SecondGet =>
        /\ last.result.ret = last.previous.ret
        /\ last.result.calls = <<>>

---------------------------------------------------------------------------
(* Claims about the transfer actions, checked under SpecTransfer *)

NewRan == out.new.op = "COSMOS_SEND_TOKEN"

OldRan == out.old.op = "SEND_COSMOS"

\* what the handler whose outcome is o was answered to `request`
Heard(o, request) == {h.answer : h \in {x \in o.heard : x.request = request}}

\* the language model gave the handler the content of the request
Extracted(o) == \E a \in Heard(o, "generateObject") : ~a.throws

\* the two handlers were answered the same to the requests both made
SameAnswers ==
    \A a \in out.new.heard : \A b \in out.old.heard :
        a.request = b.request => a.answer = b.answer

\* the calls of a handler that are named c
CallsNamed(result, c) ==
    {i \in 1..Len(result.calls) : result.calls[i].call = c}

\* the only call named c
TheCall(result, c) == result.calls[CHOOSE i \in CallsNamed(result, c) : TRUE]

\* C2 as stated: the handler of COSMOS_SEND_TOKEN, called with a callback
\* (one that returns), calls it once; when it returns true the text matches
\* "Transfer completed successfully", and when it returns false, on
\* whatever path, the content has an `error`.
C2_CallbackMatchesResult ==
    (NewRan /\ Extracted(out.new) /\ req.callback = ReturningCallback) =>
        LET r == out.new.result
        IN  /\ Len(r.callbacks) = 1
            /\ r.ret => Includes(r.callbacks[1].text, "Transfer completed successfully")
            /\ ~r.ret => "error" \in DOMAIN r.callbacks[1].content

\* C6 as stated: every call of estimateGas returns a StdFee that has a gas
\* and one fee amount in the fee denom of the chain.
C6_AlwaysAStdFee ==
    (NewRan /\ CallsNamed(out.new.result, "sendTokens") # {}) =>
        LET fee == TheCall(out.new.result, "sendTokens").fee
        IN  /\ DOMAIN fee = {"amount", "gas"}
            /\ Len(fee.amount) = 1
            /\ fee.amount[1].denom # Undefined

\* both handlers ran on the request and both reached their broadcast call
BothBroadcast ==
    /\ NewRan /\ CallsNamed(out.new.result, "sendTokens") # {}
    /\ OldRan /\ CallsNamed(out.old.result, "signAndBroadcast") # {}

\* how a handler ended: it returned true or false, or it rejected
Outcome(o) ==
    IF o.result.threw THEN "rejected" ELSE IF o.result.ret THEN "true" ELSE "false"

\* C8 as stated: on the same request SEND_COSMOS and COSMOS_SEND_TOKEN return
\* the same boolean, and the MsgSend they broadcast has the same recipient
\* and the same base-unit amount.
C8_SameTransfer ==
    (NewRan /\ OldRan /\ SameAnswers) =>
        /\ Outcome(out.new) = Outcome(out.old)
        /\ BothBroadcast =>
              LET sent == TheCall(out.new.result, "sendTokens")
                  msg == TheCall(out.old.result, "signAndBroadcast").msgs[1]
              IN  /\ sent.recipient = msg.toAddress
                  /\ sent.amount[1].amount = msg.amount[1].amount

\* COSMOS_DECIMALS as SEND_COSMOS reads it
OldDecimals ==
    IF req.runtime.COSMOS_DECIMALS = Undefined THEN 6
    ELSE DigitsValue(req.runtime.COSMOS_DECIMALS)

\* the amount of the request as a decimal, and as the text String() gives
AmountDec ==
    IF req.content.amount.t = "number" THEN [m |-> req.content.amount.v, e |-> 0]
    ELSE ParseDec(req.content.amount.v)

AmountText ==
    IF req.content.amount.t = "number" THEN NatToString(req.content.amount.v)
    ELSE req.content.amount.v

\* the broadcast call of the handler whose outcome is o returned a result
Broadcast(o) == \E a \in Heard(o, "broadcast") : ~a.throws

\* the broadcast call of the handler whose outcome is o returned code 0
BroadcastCodeZero(o) == \E a \in Heard(o, "broadcast") : ~a.throws /\ a.code = 0

\* a handler whose success message makes the callback throw is in its
\* catch: it returns false, or rejects when the callback throws on the error
\* message too
EndsInCatch(o) ==
    Outcome(o) = IF "failure" \in req.callback.throwsOn THEN "rejected" ELSE "false"

\* C8 amended: when both handlers reach their broadcast call, both send a
\* MsgSend to the extracted recipient, but not the same amount nor always
\* the same boolean: SEND_COSMOS sends floor(amount * 10^decimals) and
\* returns true whenever the broadcast call returns and the callback, if
\* any, returns from the success message; COSMOS_SEND_TOKEN sends the
\* amount as extracted, and returns true only if the result's code is 0
\* (and then whenever the callback, if any, returns from the success
\* message).  A callback that throws on the success message puts either
\* handler in its catch.
C8_SameRecipientOnly ==
    BothBroadcast =>
        LET sent == TheCall(out.new.result, "sendTokens")
            msg == TheCall(out.old.result, "signAndBroadcast").msgs[1]
        IN  /\ sent.recipient = req.content.recipient.v
            /\ msg.toAddress = req.content.recipient.v
            /\ sent.amount[1].amount = AmountText
            /\ DigitsValue(msg.amount[1].amount) * Pow10(AmountDec.e)
                   <= AmountDec.m * Pow10(OldDecimals)
            /\ (DigitsValue(msg.amount[1].amount) + 1) * Pow10(AmountDec.e)
                   > AmountDec.m * Pow10(OldDecimals)
            /\ (Outcome(out.old) = "true") =
                  (Broadcast(out.old) /\ "success" \notin req.callback.throwsOn)
            /\ (Outcome(out.new) = "true") =
                  (BroadcastCodeZero(out.new) /\ "success" \notin req.callback.throwsOn)
            /\ (Broadcast(out.old) /\ "success" \in req.callback.throwsOn)
                  => EndsInCatch(out.old)
            /\ (BroadcastCodeZero(out.new) /\ "success" \in req.callback.throwsOn)
                  => EndsInCatch(out.new)

\* both handlers broadcast 1.5 tokens to osmo1abc and the chain answered
\* code 5: SEND_COSMOS sent 1500000 and returned true, COSMOS_SEND_TOKEN
\* sent 1.5 and returned false
C8_Witness ==
    /\ BothBroadcast /\ SameAnswers
    /\ req.content.amount = Str("1.5")
    /\ req.callback = ReturningCallback
    /\ \E a \in Heard(out.old, "broadcast") : ~a.throws /\ a.code = 5
    /\ Outcome(out.old) = "true" /\ Outcome(out.new) = "false"
    /\ TheCall(out.new.result, "sendTokens").amount[1].amount = "1.5"
    /\ TheCall(out.old.result, "signAndBroadcast").msgs[1].amount[1].amount = "1500000"

---------------------------------------------------------------------------
(* Claims about COSMOS_SEND_TOKEN alone, checked under SpecHandler *)

\* sendTokens was called and returned a result whose code is 0
SentOk ==
    /\ NewRan /\ CallsNamed(out.new.result, "sendTokens") # {}
    /\ \E a \in Heard(out.new, "broadcast") : ~a.throws /\ a.code = 0

\* the handler returned true (it did not reject)
ReturnedTrue == NewRan /\ ~out.new.result.threw /\ out.new.result.ret

\* the handler returned false (it did not reject)
ReturnedFalse == NewRan /\ ~out.new.result.threw /\ ~out.new.result.ret

\* C12 as stated: whatever the content, the chain and the callback do, the
\* handler returns true if and only if sendTokens was called and returned a
\* result with code 0.
C12_TrueIffCodeZero ==
    NewRan => (ReturnedTrue <=> SentOk)

\* C12 amended: the handler returns true only if sendTokens was called and
\* returned code 0; after such a sendTokens it returns true when the callback
\* is absent or returns from the success response, returns false when the
\* callback throws on the success response only, and rejects when the
\* callback throws on the failure response too.
C12_TrueOnlyIfCodeZero ==
    NewRan =>
        /\ ReturnedTrue => SentOk
        /\ (SentOk /\ "success" \notin req.callback.throwsOn) => ReturnedTrue
        /\ (SentOk /\ "success" \in req.callback.throwsOn) =>
              IF "failure" \in req.callback.throwsOn
              THEN out.new.result.threw
              ELSE ReturnedFalse

\* sendTokens returned code 0, the callback threw on the success response
\* and was called again from the catch: the handler returned false
C12_Witness ==
    /\ SentOk
    /\ req.callback.throwsOn = {"success"}
    /\ ReturnedFalse
    /\ Len(out.new.result.callbacks) = 2
    /\ "message" \in DOMAIN out.new.result.callbacks[2].content

\* the extracted content fails isTransferCosmosContent
FailsTypeGuard ==
    \/ req.content.tokenDenom.t # "string"
    \/ req.content.amount.t \notin {"string", "number", "NaN"}
    \/ /\ req.content.recipient.t = "string"
       /\ req.content.recipient.v # ""
       /\ SubSeq(req.content.recipient.v, 1, 5) # "osmo1"
       /\ SubSeq(req.content.recipient.v, 1, 7) # "cosmos1"
    \/ /\ req.content.memo \notin {JsUndef, JsNull, Str(""), Num(0), JsNaN}
       /\ req.content.memo.t # "string"

NoRecipient == req.content.recipient \in {Str(""), JsNull, JsUndef}

FalsyAmount == req.content.amount \in {Str(""), Num(0), JsNaN}

\* the handler ran on content that was extracted and that fails
\* isTransferCosmosContent, has no recipient or has a falsy amount
Refusable ==
    NewRan /\ Extracted(out.new) /\ (FailsTypeGuard \/ NoRecipient \/ FalsyAmount)

\* C13 as stated: when the extracted content fails isTransferCosmosContent,
\* has no recipient or has a falsy amount, the handler returns false and
\* calls none of connectWallet, estimateGas and sendTokens.
C13_Original ==
    Refusable => (ReturnedFalse /\ out.new.result.calls = <<>>)

\* C13 amended: on such content the handler makes no call at all (no
\* connectWallet, estimateGas or sendTokens) and never returns true; it
\* returns false when the callback is absent or returns from the refusal
\* message, and rejects, having called the callback once, when the callback
\* throws on the refusal message.
C13_RefusedWithoutChainCalls ==
    Refusable =>
        /\ out.new.result.calls = <<>>
        /\ ~ReturnedTrue
        /\ "refusal" \notin req.callback.throwsOn => ReturnedFalse
        /\ "refusal" \in req.callback.throwsOn =>
              /\ out.new.result.threw
              /\ Len(out.new.result.callbacks) = 1

\* a memo that is a number was refused by a callback that throws on the
\* refusal message: the handler rejected, with no call made, after telling
\* the callback that the content is invalid
C13_Witness ==
    /\ NewRan
    /\ req.content.recipient = Str("osmo1abc")
    /\ req.content.tokenDenom = Str("uosmo") /\ req.content.amount = Str("1.5")
    /\ req.content.memo = Num(5)
    /\ req.runtime.COSMOS_MNEMONIC # Undefined
    /\ req.callback.throwsOn = {"refusal"}
    /\ out.new.result.threw
    /\ out.new.result.calls = <<>>
    /\ Len(out.new.result.callbacks) = 1
    /\ out.new.result.callbacks[1].content = [error |-> "Invalid cosmos transfer content"]

\* connectWallet fails on the request: no mnemonic, no RPC setting and a
\* chain name the registry does not know, a signer that cannot be made, a
\* connection that is refused, or a signer without accounts
ConnectFails ==
    \/ req.runtime.COSMOS_MNEMONIC = Undefined
    \/ /\ req.runtime.COSMOS_RPC_URL = Undefined
       /\ req.runtime.COSMOS_CHAIN_NAME \notin {"osmosis", "cosmoshub"}
    \/ \E a \in Heard(out.new, "getOfflineSigner") : a.throws
    \/ \E a \in Heard(out.new, "connectWithSigner") : a.throws
    \/ \E a \in Heard(out.new, "getAccounts") : a.accounts = <<>>

\* the calls of a handler that are requests of connectWallet
ConnectRequestsOf(result) ==
    {i \in 1..Len(result.calls) : result.calls[i].call \in ConnectRequests}

\* C14: in every invocation the handler calls connectWallet, then
\* estimateGas, then sendTokens, each after the previous one and the calls
\* it made completed; each is called at most once, and when connectWallet
\* fails neither estimateGas nor sendTokens is called.
C14_ConnectEstimateSend ==
    NewRan =>
        LET r == out.new.result
            connects == CallsNamed(r, "connectWallet")
            estimates == CallsNamed(r, "estimateGas")
            sends == CallsNamed(r, "sendTokens")
        IN  /\ Cardinality(connects) <= 1
            /\ Cardinality(estimates) <= 1
            /\ Cardinality(sends) <= 1
            /\ \A e \in estimates :
                  /\ \E c \in connects : c < e
                  /\ \A i \in ConnectRequestsOf(r) : i < e
            /\ \A s \in sends :
                  /\ \E e \in estimates : e < s
                  /\ \A i \in CallsNamed(r, "simulate") : i < s
            /\ \A i \in ConnectRequestsOf(r) :
                  \E c \in connects : c < i
            /\ \A i \in CallsNamed(r, "simulate") :
                  \E e \in estimates : e < i
            /\ (connects # {} /\ ConnectFails) => (estimates = {} /\ sends = {})

\* a full invocation: connectWallet and its three requests, estimateGas,
\* its simulation, sendTokens, in this order
C14_Witness ==
    /\ NewRan
    /\ Len(out.new.result.calls) = 7
    /\ out.new.result.calls[1].call = "connectWallet"
    /\ out.new.result.calls[2].call = "getOfflineSigner"
    /\ out.new.result.calls[3].call = "connectWithSigner"
    /\ out.new.result.calls[4].call = "getAccounts"
    /\ out.new.result.calls[5].call = "estimateGas"
    /\ out.new.result.calls[6].call = "simulate"
    /\ out.new.result.calls[7].call = "sendTokens"

\* C15 as stated: sendTokens is only called with a fee that has a gas limit
\* and a fee amount; when the simulation of estimateGas fails, sendTokens is
\* not called and the handler returns false.
C15_NoSendWithoutFee ==
    NewRan =>
        LET r == out.new.result
        IN  /\ \A s \in CallsNamed(r, "sendTokens") :
                  {"gas", "amount"} \subseteq DOMAIN r.calls[s].fee
            /\ (\E a \in Heard(out.new, "simulate") : a.throws) =>
                  /\ CallsNamed(r, "sendTokens") = {}
                  /\ ReturnedFalse

\* the extracted memo as + converts it to a string
MemoText ==
    CASE req.content.memo.t = "string" -> req.content.memo.v
      [] req.content.memo.t = "null" -> "null"
      [] OTHER -> "undefined"

\* C16: in every invocation that reaches sendTokens, the signer, recipient,
\* denom, amount and memo given to estimateGas are those given to
\* sendTokens; the amount is String(amount) of the extracted content and
\* the memo is the extracted memo, converted to a string, followed by the
\* plugin suffix.
C16_SimulatedIsBroadcast ==
    (NewRan /\ CallsNamed(out.new.result, "sendTokens") # {}) =>
        LET est == TheCall(out.new.result, "estimateGas")
            sent == TheCall(out.new.result, "sendTokens")
        IN  /\ est.signer = sent.sender
            /\ Len(est.msgs) = 1
            /\ est.msgs[1].fromAddress = sent.sender
            /\ est.msgs[1].toAddress = sent.recipient
            /\ est.msgs[1].amount = sent.amount
            /\ est.memo = sent.memo
            /\ sent.recipient = req.content.recipient.v
            /\ Len(sent.amount) = 1
            /\ sent.amount[1].denom = req.content.tokenDenom.v
            /\ sent.amount[1].amount = AmountText
            /\ sent.memo = MemoText \o " - sent via Vitwit's Eliza Cosmos plugin"

\* 2 uosmo were sent to cosmos1abc with the memo "rent"
C16_Witness ==
    /\ NewRan /\ CallsNamed(out.new.result, "sendTokens") # {}
    /\ req.content.amount = Num(2) /\ req.content.memo = Str("rent")
    /\ TheCall(out.new.result, "sendTokens").amount[1].amount = "2"
    /\ TheCall(out.new.result, "sendTokens").recipient = "cosmos1abc"
    /\ TheCall(out.new.result, "estimateGas").memo
          = "rent - sent via Vitwit's Eliza Cosmos plugin"

---------------------------------------------------------------------------
(* Claims about keys, checked under SpecKeys *)

\* a call of either version of getCosmosWalletKey has returned
KeyReturned ==
    /\ last.op \in {"getCosmosWalletKey", "getCosmosWalletKey (first)"}
    /\ last.result.ok

\* C5 as stated: whatever the TEE mode and the settings, a result of
\* getCosmosWalletKey has no privateKey when requirePrivateKey is false, and
\* has privateKey, publicKey and address when it is true.
C5_KeysByRequirePrivateKey ==
    KeyReturned =>
        IF last.requirePrivateKey
        THEN {"privateKey", "publicKey", "address"} \subseteq DOMAIN last.result.result
        ELSE "privateKey" \notin DOMAIN last.result.result

\* C7 as stated: new DeriveKeyProvider() with no TEE mode constructs a provider.
C7_ConstructsWithoutMode ==
    (last.op = "new DeriveKeyProvider" /\ last.teeMode = Undefined) => last.result.ok

---------------------------------------------------------------------------
(* Claims about the portfolio cache, checked under SpecCache *)

\* the key the claim names for each provider
PortfolioKey == "portfolio-" \o wp.self.chainInfo.chain_name

TeePortfolioKey == "portfolio-" \o TeeWalletAddress

\* C10: fetchPortfolioValue, on a cache miss, stores the portfolio it built
\* under "portfolio-<chain name>" ("portfolio-<wallet address>" in the TEE
\* provider), and on a hit returns the cached portfolio with no call to the
\* chain or the price service.
C10_PortfolioCached ==
    /\ last.op = "fetchPortfolioValue" =>
          LET cached == CacheGet(last.cacheBefore, PortfolioKey, last.at)
          IN  IF cached # JsUndef
              THEN /\ last.result.ok /\ last.result.value = cached
                   /\ last.result.calls = <<>>
              ELSE last.result.ok =>
                     /\ last.result.calls # <<>>
                     /\ CacheGet(wp.self.cache, PortfolioKey, now) = last.result.value
    /\ last.op = "fetchPortfolioValue (tee)" =>
          LET cached == CacheGet(last.cacheBefore, TeePortfolioKey, last.at)
          IN  IF cached # JsUndef
              THEN /\ last.result.ok /\ last.result.value = cached
                   /\ last.result.calls = <<>>
              ELSE last.result.ok =>
                     /\ last.result.calls # <<>>
                     /\ CacheGet(teeWp.self.cache, TeePortfolioKey, now)
                            = last.result.value

\* a hit: a tick after the portfolio of 12345 uenvdenom was cached,
\* fetchPortfolioValue returned it and asked the chain nothing
C10_Witness ==
    /\ last.op = "fetchPortfolioValue"
    /\ last.at = TickSeconds
    /\ CacheGet(last.cacheBefore, PortfolioKey, last.at) # JsUndef
    /\ last.result.calls = <<>>
    /\ last.result.value.tokens[1].balance = "12345"

\* fetchPortfolioValue missed the portfolio cache and returned a portfolio
\* while the price service answers OK with a USD price
MissWithPrice ==
    /\ last.op = "fetchPortfolioValue"
    /\ CacheGet(last.cacheBefore, PortfolioKey, last.at) = JsUndef
    /\ last.result.ok
    /\ req.price.ok
    /\ req.price.usd # JsUndef

\* C17 as stated: on a portfolio-cache miss, when the price service answers
\* OK with the USD price p, the portfolio's priceUsd is p, and its valueUsd
\* and totalUsd are the balance shifted by the chain's decimals times p.
C17_PortfolioPriced ==
    MissWithPrice =>
        LET token == last.result.value.tokens[1]
            p == req.price.usd
        IN  /\ token.priceUsd = DecToString(p)
            /\ token.valueUsd =
                  DecToString(MultipliedBy(ShiftedBy(token.balance, token.decimals.v), p))
            /\ last.result.value.totalUsd = token.valueUsd

=============================================================================
